---------------------------- MODULE Spec2Model ----------------------------
(***************************************************************************)
(* A model of the consensus helpers of the validator node:                 *)
(*                                                                         *)
(*   - dummy block synthesis (hotstuff/common.rs): with_dummy_blocks and   *)
(*     its two entry points calculate_last_dummy_block and                 *)
(*     calculate_dummy_blocks, one action per entry point, one for the     *)
(*     guard and one per iteration of the loop;                            *)
(*   - the catch-up sync handler (hotstuff/on_catch_up_sync_request.rs):   *)
(*     OnSyncRequest::handle and the task it spawns, one action per        *)
(*     suspension point of the task;                                       *)
(*   - the state merkle diff (hotstuff/common.rs);                         *)
(*   - the watcher's child monitor and its two status consumers            *)
(*     (tari_watcher/src/monitoring.rs);                                   *)
(*   - the base node client (base_node_client/src/grpc.rs);                *)
(*   - the wallet's confidential proofs (wallet/crypto/src/proof.rs).      *)
(*                                                                         *)
(* Heights are NodeHeight (u64) in the code; the model keeps them far      *)
(* below 2^64, so the additions never wrap.                                *)
(***************************************************************************)
EXTENDS Integers, Sequences, FiniteSets, TLC

VARIABLES
    \* ---- dummy block synthesis ----
    d_pc,            \* position of the synthesis call
    d_in,            \* the arguments of the entry point
    d_args,          \* the arguments handed to with_dummy_blocks
    parent_block,    \* with_dummy_blocks: let mut parent_block
    current_height,  \* with_dummy_blocks: let mut current_height
    visited,         \* the blocks handed to the callback, in order
    dummy,           \* calculate_last_dummy_block: let mut dummy
    dummies,         \* calculate_dummy_blocks: let mut dummies
    \* ---- catch-up sync ----
    store,           \* the state store: epoch, leaf_block, last_proposed, last_sent_vote, blocks
    task,            \* per request: the state of handle and of the task it spawns
    \* ---- state merkle diff ----
    m_pc,            \* position of the call of calculate_state_merkle_diff
    m_in,            \* its arguments: the reader, the versions, the pending diffs, the substate diff
    m_changes,       \* the substate changes handed to it
    m_store,         \* let mut store: the staged tree store
    m_applied,       \* the diffs layered onto the staged store, in order
    m_put,           \* the arguments put_substate_changes was called with
    m_root,          \* let state_root: the result of put_substate_changes
    m_result,        \* the value returned
    \* ---- watcher ----
    w_pc,            \* position of monitor_child
    w_step,          \* the sends of monitor_child that went through
    w_exit,          \* what child.wait() returns
    w_cfg,           \* the alerting clients that are enabled
    chan,            \* per channel: the statuses it holds
    rx_open,         \* per channel: the receiver has not been dropped
    tx_dropped,      \* every sender has been dropped
    log_pc,          \* position of process_status_log
    alert_pc,        \* position of process_status_alert
    w_trace,         \* the sends of monitor_child the channels accepted, in order
    delivered,       \* per channel: the statuses its receiver took
    \* ---- base node client ----
    g_pc,            \* position of the operation in progress
    g_client,        \* GrpcBaseNodeClient.client
    g_op,            \* the operation called last
    g_stream,        \* what the stream of the operation has given, in order
    g_acc,           \* the list the stream loop has built
    g_count,         \* get_mempool_transaction_count: let mut count
    g_result,        \* the value the operation returned
    g_attempts,      \* the connection attempts made
    g_connects,      \* the outcome of each Client::connect, in order
    g_calls,         \* the operations called
    \* ---- confidential proofs ----
    p_pc,            \* which of the proof functions the wallet has called
    p_call,          \* the arguments of create_confidential_output_statement
    p_result,        \* what it returned, or that it panicked
    v_in,            \* the arguments of create_viewable_balance_proof
    v_proof,         \* the proof it returned
    e_in,            \* the arguments of encrypt_data and the nonce it drew
    e_data,          \* the encrypted data, as it reaches decrypt_data_and_mask
    e_flip,          \* the bit of it that was changed
    e_out            \* what decrypt_data_and_mask returned

dvars == <<d_pc, d_in, d_args, parent_block, current_height, visited, dummy, dummies>>
mvars == <<m_pc, m_in, m_changes, m_store, m_applied, m_put, m_root, m_result>>
wvars == <<w_pc, w_step, w_exit, w_cfg, chan, rx_open, tx_dropped, log_pc, alert_pc, w_trace, delivered>>
gvars == <<g_pc, g_client, g_op, g_stream, g_acc, g_count, g_result, g_attempts, g_connects, g_calls>>
pvars == <<p_pc, p_call, p_result, v_in, v_proof, e_in, e_data, e_flip, e_out>>
xvars == <<wvars, gvars, pvars>>
cvars == <<dvars, store, task, mvars>>
svars == <<store, task, mvars, xvars>>
vars == <<dvars, svars>>

None == [some |-> FALSE]
Some(v) == [some |-> TRUE, value |-> v]

(***************************************************************************)
(* Bounds of the model.                                                    *)
(***************************************************************************)
MaxQcHeight == 2
MaxNewHeight == 4
MaxCommittee == 3
MaxLeafHeight == 3

(***************************************************************************)
(* Blocks, quorum certificates and leaves.                                 *)
(***************************************************************************)

\* An opaque id of a block that was not synthesized here.
RealId(name) == <<"block", name>>

\* Block::calculate_hash: the id of a block is the hash of its header. The
\* hash is collision free: it is modelled by the header itself.
BlockHash(header) == <<"hash", header>>

\* QuorumCertificate::as_leaf_block
QcAsLeafBlock(qc) == [block_id |-> qc.block_id, height |-> qc.block_height, epoch |-> qc.epoch]

\* Block::as_leaf_block
BlockAsLeafBlock(b) == [block_id |-> b.id, height |-> b.height, epoch |-> b.epoch]

\* Block::dummy_block: no commands, is_dummy set, the id computed from the header.
\* p: the fields handed down from the parent (network, epoch, shard, merkle
\* root, timestamp, base layer height and hash).
DummyBlock(p, parent, proposed_by, height, high_qc) ==
    LET header == [network |-> p.network, parent |-> parent, justify |-> high_qc,
                   height |-> height, epoch |-> p.epoch, shard |-> p.shard,
                   proposed_by |-> proposed_by, merkle_root |-> p.merkle_root,
                   timestamp |-> p.timestamp,
                   base_layer_block_height |-> p.base_layer_block_height,
                   base_layer_block_hash |-> p.base_layer_block_hash,
                   is_dummy |-> TRUE]
    IN  [id |-> BlockHash(header)] @@ header

\* A strategy that selects the first member at every height.
GetLeaderPublicKeyFirstMember(committee, height) == committee[1]

\* RoundRobinLeaderStrategy::get_leader_public_key: height mod |committee|.
GetLeaderPublicKey(committee, height) == committee[(height % Len(committee)) + 1]

(***************************************************************************)
(* The callbacks of the two entry points. Each returns the new value of    *)
(* the captured variable and the ControlFlow.                              *)
(***************************************************************************)

\* common.rs 58-61: dummy = Some(dummy_block.as_leaf_block()); Continue
LastCallback(dummy_block) ==
    [captured |-> Some(BlockAsLeafBlock(dummy_block)), is_break |-> FALSE]

\* A visitor that breaks on the candidate's parent without keeping it.
AllCallbackDropsParent(acc, candidate_parent, dummy_block) ==
    IF dummy_block.id = candidate_parent
    THEN [captured |-> acc, is_break |-> TRUE]
    ELSE [captured |-> Append(acc, dummy_block), is_break |-> FALSE]

\* common.rs 87-95: push, Break when the id is the candidate's parent
AllCallback(acc, candidate_parent, dummy_block) ==
    IF dummy_block.id = candidate_parent
    THEN [captured |-> Append(acc, dummy_block), is_break |-> TRUE]
    ELSE [captured |-> Append(acc, dummy_block), is_break |-> FALSE]

\* common.rs 119-121: the first height, and the guard on it
FirstHeight(high_qc) == high_qc.block_height + 1

\* A guard that lets the height just above new_height through.
NothingToCalculateLate(first_height, new_height) == first_height > new_height + 1

NothingToCalculate(first_height, new_height) == first_height > new_height

\* Fields handed down with the epoch and the shard of the high QC.
HandedDownOfQc(a) ==
    [network |-> a.network, epoch |-> a.high_qc.epoch, shard |-> a.high_qc.shard,
     merkle_root |-> a.parent_merkle_root, timestamp |-> a.parent_timestamp,
     base_layer_block_height |-> a.parent_base_layer_block_height,
     base_layer_block_hash |-> a.parent_base_layer_block_hash]

\* The fields with_dummy_blocks hands down to every dummy block.
HandedDown(a) ==
    [network |-> a.network, epoch |-> a.epoch, shard |-> a.shard,
     merkle_root |-> a.parent_merkle_root, timestamp |-> a.parent_timestamp,
     base_layer_block_height |-> a.parent_base_layer_block_height,
     base_layer_block_hash |-> a.parent_base_layer_block_hash]

\* A loop that builds every dummy block on the block of the high QC.
LoopDummyBlockOnQc(a, parent, height) ==
    DummyBlock(HandedDown(a), a.high_qc.block_id,
               GetLeaderPublicKey(a.local_committee, height), height, a.high_qc)

\* A loop that takes the leader of new_height for every dummy block.
LoopDummyBlockLastLeader(a, parent, height) ==
    DummyBlock(HandedDown(a), parent.block_id,
               GetLeaderPublicKey(a.local_committee, a.new_height), height, a.high_qc)

\* common.rs 138-151: the dummy block of one iteration
LoopDummyBlock(a, parent, height) ==
    DummyBlock(HandedDown(a), parent.block_id,
               GetLeaderPublicKey(a.local_committee, height), height, a.high_qc)

\* A loop that stops one height short of new_height.
LoopEndsEarly(is_break, height, new_height) == is_break \/ height + 1 >= new_height

\* common.rs 159-165: the loop ends on Break or when new_height is reached
LoopEnds(is_break, height, new_height) == is_break \/ height = new_height

(***************************************************************************)
(* The inputs of a synthesis call.                                         *)
(***************************************************************************)
Validator(i) == <<"vn", i>>

\* Committees of every size up to MaxCommittee, in two orders.
Committees ==
    UNION {{[i \in 1..n |-> Validator(i)], [i \in 1..n |-> Validator(n + 1 - i)]}
           : n \in 1..MaxCommittee}

\* The header fields a block hands down to the dummies that follow it.
Bundles ==
    {[network |-> "net1", epoch |-> 1, shard |-> 1, merkle_root |-> "mr1",
      timestamp |-> 11, base_layer_block_height |-> 21, base_layer_block_hash |-> "bl1"],
     [network |-> "net2", epoch |-> 2, shard |-> 2, merkle_root |-> "mr2",
      timestamp |-> 12, base_layer_block_height |-> 22, base_layer_block_hash |-> "bl2"]}

HighQcs ==
    {[block_id |-> RealId("X"), block_height |-> h, epoch |-> 1, shard |-> 1]
     : h \in 0..MaxQcHeight}

\* The arguments calculate_last_dummy_block passes on unchanged (common.rs 46-57).
LastArgs(in) ==
    [network |-> in.network, epoch |-> in.epoch, shard |-> in.shard,
     high_qc |-> in.high_qc, parent_merkle_root |-> in.parent_merkle_root,
     new_height |-> in.new_height, local_committee |-> in.local_committee,
     parent_timestamp |-> in.parent_timestamp,
     parent_base_layer_block_height |-> in.parent_base_layer_block_height,
     parent_base_layer_block_hash |-> in.parent_base_layer_block_hash]

\* The arguments calculate_dummy_blocks derives from the candidate and the
\* justified block (common.rs 75-86).
AllArgs(in) ==
    [network |-> in.candidate_block.network, epoch |-> in.justify_block.epoch,
     shard |-> in.justify_block.shard, high_qc |-> in.candidate_block.justify,
     parent_merkle_root |-> in.justify_block.merkle_root,
     new_height |-> in.candidate_block.height,
     local_committee |-> in.local_committee,
     parent_timestamp |-> in.justify_block.timestamp,
     parent_base_layer_block_height |-> in.justify_block.base_layer_block_height,
     parent_base_layer_block_hash |-> in.justify_block.base_layer_block_hash]

\* The dummy chain of a call whose visitor never breaks, cut after n blocks:
\* the n-th block is built on the leaf of the block before it.
RECURSIVE DummyChain(_, _)
DummyChain(a, n) ==
    IF n = 0 THEN <<>>
    ELSE LET before == DummyChain(a, n - 1)
             parent == IF n = 1 THEN QcAsLeafBlock(a.high_qc)
                       ELSE BlockAsLeafBlock(before[n - 1])
         IN  Append(before, LoopDummyBlock(a, parent, a.high_qc.block_height + n))

LastInputs ==
    {[entry |-> "last", network |-> p.network, epoch |-> p.epoch, shard |-> p.shard,
      high_qc |-> qc, parent_merkle_root |-> p.merkle_root, new_height |-> nh,
      local_committee |-> c, parent_timestamp |-> p.timestamp,
      parent_base_layer_block_height |-> p.base_layer_block_height,
      parent_base_layer_block_hash |-> p.base_layer_block_hash]
     : p \in Bundles, qc \in HighQcs, nh \in 0..MaxNewHeight, c \in Committees}

\* A block of the given header fields, justify, height and parent.
InputBlock(p, parent, qc, h) == p @@ [parent |-> parent, justify |-> qc, height |-> h]

\* The parents a candidate may name: blocks that were not synthesized, and
\* the dummies of its own chain, also of heights the call never reaches.
CandidateParents(in) ==
    {RealId("X"), RealId("Z")}
    \cup {DummyChain(AllArgs(in), MaxNewHeight + 1)[k].id : k \in 1..(MaxNewHeight + 1)}

AllInputs ==
    UNION {
        LET in0 == [entry |-> "all",
                    candidate_block |-> InputBlock(cp, RealId("X"), qc, nh),
                    justify_block |-> InputBlock(jp, RealId("W"), qc, qc.block_height),
                    local_committee |-> c]
        IN  {[in0 EXCEPT !.candidate_block.parent = par] : par \in CandidateParents(in0)}
        : cp \in Bundles, jp \in Bundles, qc \in HighQcs,
          nh \in 0..MaxNewHeight, c \in Committees}

NoArgs == [new_height |-> 0]
NoLeaf == [block_id |-> RealId(""), height |-> 0, epoch |-> 0]

DummyStart ==
    /\ d_in \in LastInputs \cup AllInputs
    /\ d_pc = "entry"
    /\ d_args = NoArgs
    /\ parent_block = NoLeaf
    /\ current_height = 0
    /\ visited = <<>>
    /\ dummy = None
    /\ dummies = <<>>

\* common.rs 32-65: calculate_last_dummy_block calls with_dummy_blocks
CalculateLastDummyBlock ==
    /\ d_pc = "entry"
    /\ d_in.entry = "last"
    /\ dummy' = None
    /\ d_args' = LastArgs(d_in)
    /\ d_pc' = "with_dummy_blocks"
    /\ UNCHANGED <<d_in, parent_block, current_height, visited, dummies>>
    /\ UNCHANGED svars

\* common.rs 68-99: calculate_dummy_blocks calls with_dummy_blocks
CalculateDummyBlocks ==
    /\ d_pc = "entry"
    /\ d_in.entry = "all"
    /\ dummies' = <<>>
    /\ d_args' = AllArgs(d_in)
    /\ d_pc' = "with_dummy_blocks"
    /\ UNCHANGED <<d_in, parent_block, current_height, visited, dummy>>
    /\ UNCHANGED svars

\* common.rs 119-129: the guard of with_dummy_blocks
WithDummyBlocksEnter ==
    /\ d_pc = "with_dummy_blocks"
    /\ parent_block' = QcAsLeafBlock(d_args.high_qc)
    /\ current_height' = FirstHeight(d_args.high_qc)
    /\ d_pc' = IF NothingToCalculate(FirstHeight(d_args.high_qc), d_args.new_height)
               THEN "done" ELSE "loop"
    /\ UNCHANGED <<d_in, d_args, visited, dummy, dummies>>
    /\ UNCHANGED svars

\* common.rs 137-167: one iteration of the loop of with_dummy_blocks
WithDummyBlocksLoop ==
    /\ d_pc = "loop"
    /\ LET dummy_block == LoopDummyBlock(d_args, parent_block, current_height)
           flow == IF d_in.entry = "last"
                   THEN LastCallback(dummy_block)
                   ELSE AllCallback(dummies, d_in.candidate_block.parent, dummy_block)
       IN  /\ parent_block' = BlockAsLeafBlock(dummy_block)
           /\ visited' = Append(visited, dummy_block)
           /\ IF d_in.entry = "last"
              THEN dummy' = flow.captured /\ UNCHANGED dummies
              ELSE dummies' = flow.captured /\ UNCHANGED dummy
           /\ IF LoopEnds(flow.is_break, current_height, d_args.new_height)
              THEN d_pc' = "done" /\ UNCHANGED current_height
              ELSE d_pc' = "loop" /\ current_height' = current_height + 1
    /\ UNCHANGED <<d_in, d_args>>
    /\ UNCHANGED svars

DummyNext ==
    \/ CalculateLastDummyBlock
    \/ CalculateDummyBlocks
    \/ WithDummyBlocksEnter
    \/ WithDummyBlocksLoop

(***************************************************************************)
(* The catch-up sync handler.                                              *)
(***************************************************************************)

\* The limit handle passes to get_all_blocks_between.
SyncLimit == 1000

Requests == {"r1", "r2"}
Epochs == {1, 2, 3}

Peer(r) == <<"peer", r>>

StoredBlock(h, e) == [height |-> h, epoch |-> e]

\* Block::is_genesis: the genesis block is the block of height zero.
IsGenesis(b) == b.height = 0

\* The blocks of a set in some order.
RECURSIVE InSomeOrder(_)
InSomeOrder(bs) ==
    IF bs = {} THEN <<>>
    ELSE LET b == CHOOSE c \in bs : TRUE
         IN  <<b>> \o InSomeOrder(bs \ {b})

\* The blocks of a set whose heights are in lo..hi, in ascending height: those
\* of the lower half of the heights before those of the upper half.
RECURSIVE SortRange(_, _, _)
SortRange(bs, lo, hi) ==
    IF bs = {} THEN <<>>
    ELSE IF lo = hi THEN InSomeOrder(bs)
    ELSE LET mid == (lo + hi) \div 2
         IN  SortRange({b \in bs : b.height <= mid}, lo, mid)
                \o SortRange({b \in bs : b.height > mid}, mid + 1, hi)

\* The blocks of a set, in ascending height.
SortByHeight(bs) ==
    IF bs = {} THEN <<>>
    ELSE LET heights == {b.height : b \in bs}
             lowest == CHOOSE h \in heights : \A g \in heights : h <= g
             highest == CHOOSE h \in heights : \A g \in heights : g <= h
         IN  SortRange(bs, lowest, highest)

Take(seq, n) == IF Len(seq) <= n THEN seq ELSE SubSeq(seq, 1, n)

\* Block::get_all_blocks_between: the blocks of the epoch between the two
\* heights, both included when inclusive is set, in ascending height, at most
\* limit of them.
GetAllBlocksBetween(blocks, epoch, lo, hi, inclusive, limit) ==
    LET in_range(b) == IF inclusive THEN lo <= b.height /\ b.height <= hi
                       ELSE lo < b.height /\ b.height < hi
    IN  Take(SortByHeight({b \in blocks : b.epoch = epoch /\ in_range(b)}), limit)

\* A check that turns away the requests of older epochs only.
EpochMismatchOlderOnly(high_qc, epoch) == high_qc.epoch < epoch

\* on_catch_up_sync_request.rs 42: the request is for another epoch
EpochMismatch(high_qc, epoch) == high_qc.epoch # epoch

\* A leaf that is the last proposed block whenever there is one.
SyncLeafLastProposedFirst(leaf_block, last_proposed) ==
    IF last_proposed.some
    THEN [height |-> last_proposed.value.height, epoch |-> last_proposed.value.epoch]
    ELSE leaf_block

\* on_catch_up_sync_request.rs 58-63: the leaf block, replaced by the last
\* proposed block when that one is higher
SyncLeaf(leaf_block, last_proposed) ==
    IF last_proposed.some /\ last_proposed.value.height > leaf_block.height
    THEN [height |-> last_proposed.value.height, epoch |-> last_proposed.value.epoch]
    ELSE leaf_block

\* A removal that removes nothing.
RemoveGenesisKeepsAll(blocks) == blocks

\* A removal that fills the place of the genesis block with the last block
\* (Vec::swap_remove).
RemoveGenesisSwap(blocks) ==
    IF \E i \in 1..Len(blocks) : IsGenesis(blocks[i])
    THEN LET pos == CHOOSE i \in 1..Len(blocks) :
                        /\ IsGenesis(blocks[i])
                        /\ \A j \in 1..(i - 1) : ~IsGenesis(blocks[j])
             last == blocks[Len(blocks)]
         IN  IF pos = Len(blocks) THEN SubSeq(blocks, 1, pos - 1)
             ELSE [SubSeq(blocks, 1, Len(blocks) - 1) EXCEPT ![pos] = last]
    ELSE blocks

\* on_catch_up_sync_request.rs 104-106: remove the first genesis block
RemoveGenesis(blocks) ==
    IF \E i \in 1..Len(blocks) : IsGenesis(blocks[i])
    THEN LET pos == CHOOSE i \in 1..Len(blocks) :
                        /\ IsGenesis(blocks[i])
                        /\ \A j \in 1..(i - 1) : ~IsGenesis(blocks[j])
         IN  SubSeq(blocks, 1, pos - 1) \o SubSeq(blocks, pos + 1, Len(blocks))
    ELSE blocks

\* A load that leaves out both ends of the range.
LoadResultExclusive(st, high_qc) ==
    LET leaf_block == SyncLeaf(st.leaf_block, st.last_proposed)
    IN  IF leaf_block.height = 0
        THEN [ok |-> TRUE, leaf |-> leaf_block, blocks |-> <<>>]
        ELSE IF leaf_block.height < high_qc.block_height
        THEN [ok |-> FALSE, leaf |-> leaf_block, blocks |-> <<>>]
        ELSE [ok |-> TRUE, leaf |-> leaf_block,
              blocks |-> GetAllBlocksBetween(st.blocks, leaf_block.epoch,
                            high_qc.block_height, leaf_block.height, FALSE, SyncLimit)]

\* A load whose limit is one block above the limit of the code.
LoadResultLimitOff(st, high_qc) ==
    LET leaf_block == SyncLeaf(st.leaf_block, st.last_proposed)
    IN  IF leaf_block.height = 0
        THEN [ok |-> TRUE, leaf |-> leaf_block, blocks |-> <<>>]
        ELSE IF leaf_block.height < high_qc.block_height
        THEN [ok |-> FALSE, leaf |-> leaf_block, blocks |-> <<>>]
        ELSE [ok |-> TRUE, leaf |-> leaf_block,
              blocks |-> GetAllBlocksBetween(st.blocks, leaf_block.epoch,
                            high_qc.block_height, leaf_block.height, TRUE, SyncLimit + 1)]

\* on_catch_up_sync_request.rs 57-100: the result of the read transaction
\* that loads the blocks, when every read of it succeeds
LoadResult(st, high_qc) ==
    LET leaf_block == SyncLeaf(st.leaf_block, st.last_proposed)
    IN  IF leaf_block.height = 0
        THEN [ok |-> TRUE, leaf |-> leaf_block, blocks |-> <<>>]
        ELSE IF leaf_block.height < high_qc.block_height
        THEN [ok |-> FALSE, leaf |-> leaf_block, blocks |-> <<>>]
        ELSE [ok |-> TRUE, leaf |-> leaf_block,
              blocks |-> GetAllBlocksBetween(st.blocks, leaf_block.epoch,
                            high_qc.block_height, leaf_block.height, TRUE, SyncLimit)]

\* HotstuffMessage::Proposal and HotstuffMessage::Vote, as handed to send
ProposalMessage(to, block, ok) == [to |-> to, kind |-> "Proposal", block |-> block, ok |-> ok]

VoteMessage(to, vote, ok) == [to |-> to, kind |-> "Vote", vote |-> vote, ok |-> ok]

IdleTask ==
    [pc |-> "idle", spawned |-> FALSE, from |-> Peer(""), epoch |-> 0,
     high_qc |-> [epoch |-> 0, block_height |-> 0], leaf |-> [height |-> 0, epoch |-> 0],
     blocks |-> <<>>, log |-> <<>>, reads |-> 0, end |-> "", vote_read |-> None,
     vote_at_end |-> None]

\* The stores the node may hold: a chain of blocks from genesis to the higher
\* of the leaf and the last proposed block, which is at most one above the leaf.
Stores ==
    {[epoch |-> 2,
      leaf_block |-> [height |-> l, epoch |-> 2],
      last_proposed |-> lp,
      last_sent_vote |-> v,
      blocks |-> {StoredBlock(h, 2) : h \in 0..(IF lp.some /\ lp.value.height > l THEN lp.value.height ELSE l)}]
     : l \in 0..MaxLeafHeight,
       lp \in {None} \cup {Some([height |-> h, epoch |-> 2]) : h \in 1..(MaxLeafHeight + 1)},
       v \in {None} \cup {Some([block_height |-> h]) : h \in 1..MaxLeafHeight}}

\* Stores whose chain is as long as the limit of one response, or one block
\* shorter or longer.
LongStores ==
    {[epoch |-> 2,
      leaf_block |-> [height |-> l, epoch |-> 2],
      last_proposed |-> None,
      last_sent_vote |-> Some([block_height |-> l]),
      blocks |-> {StoredBlock(h, 2) : h \in 0..l}]
     : l \in (SyncLimit - 1)..(SyncLimit + 1)}

SyncStart ==
    /\ store \in {st \in Stores :
                    /\ st.last_proposed.some => st.last_proposed.value.height <= st.leaf_block.height + 1
                    /\ st.last_sent_vote.some => st.last_sent_vote.value.block_height = st.leaf_block.height}
    /\ task = [r \in Requests |-> IdleTask]

\* A handle that is not entered while the response to another request runs.
HandleAwaitsResponse(r) ==
    /\ task[r].pc = "idle"
    /\ \A q \in Requests \ {r} : task[q].pc \notin {"spawned", "stream"}
    /\ \E qe \in Epochs, h \in 0..(MaxLeafHeight + 1) :
         LET high_qc == [epoch |-> qe, block_height |-> h]
             t == [IdleTask EXCEPT !.from = Peer(r), !.epoch = store.epoch, !.high_qc = high_qc]
         IN  task' = [task EXCEPT ![r] =
                 IF EpochMismatch(high_qc, store.epoch)
                 THEN [t EXCEPT !.pc = "returned", !.end = "epoch"]
                 ELSE [t EXCEPT !.pc = "spawned", !.spawned = TRUE]]
    /\ UNCHANGED <<store, dvars, mvars, xvars>>

\* on_catch_up_sync_request.rs 35-56: handle returns on an epoch mismatch and
\* spawns the response task otherwise
Handle(r) ==
    /\ task[r].pc = "idle"
    /\ \E qe \in Epochs, h \in 0..(MaxLeafHeight + 1) :
         LET high_qc == [epoch |-> qe, block_height |-> h]
             t == [IdleTask EXCEPT !.from = Peer(r), !.epoch = store.epoch, !.high_qc = high_qc]
         IN  task' = [task EXCEPT ![r] =
                 IF EpochMismatch(high_qc, store.epoch)
                 THEN [t EXCEPT !.pc = "returned", !.end = "epoch"]
                 ELSE [t EXCEPT !.pc = "spawned", !.spawned = TRUE]]
    /\ UNCHANGED <<store, dvars, mvars, xvars>>

\* The task ends: what the store holds as last vote at that moment is noted.
Ended(t, why) == [t EXCEPT !.pc = "ended", !.end = why, !.vote_at_end = store.last_sent_vote]

\* on_catch_up_sync_request.rs 57-113: the read transaction that loads the
\* blocks, and the removal of the genesis block
LoadBlocks(r) ==
    /\ task[r].pc = "spawned"
    /\ \E read_ok \in BOOLEAN :
         LET t == [task[r] EXCEPT !.reads = @ + 1]
             res == LoadResult(store, t.high_qc)
         IN  task' = [task EXCEPT ![r] =
                 IF ~read_ok THEN Ended(t, "load_err")
                 ELSE IF ~res.ok THEN Ended([t EXCEPT !.leaf = res.leaf], "invalid")
                 ELSE [t EXCEPT !.pc = "stream", !.leaf = res.leaf,
                                !.blocks = RemoveGenesis(res.blocks)]]
    /\ UNCHANGED <<store, dvars, mvars, xvars>>

\* A loop that goes on to the next block when a send fails.
AfterSendBlockGoesOn(t, outcome) ==
    LET block == Head(t.blocks)
    IN  IF outcome = "fp_err" THEN Ended(t, "fp_err")
        ELSE [t EXCEPT !.log = Append(@, ProposalMessage(t.from, block, outcome = "ok")),
                       !.blocks = Tail(@)]

\* on_catch_up_sync_request.rs 124-153: the task after one iteration of the
\* loop over the blocks, by the outcome of the read and of the send
AfterSendBlock(t, outcome) ==
    LET block == Head(t.blocks)
    IN  IF outcome = "fp_err" THEN Ended(t, "fp_err")
        ELSE IF outcome = "send_err"
        THEN Ended([t EXCEPT !.log = Append(@, ProposalMessage(t.from, block, FALSE))], "send_err")
        ELSE [t EXCEPT !.log = Append(@, ProposalMessage(t.from, block, TRUE)),
                       !.blocks = Tail(@)]

\* on_catch_up_sync_request.rs 124-153: one iteration of the loop over the
\* blocks: read the foreign proposals, send the Proposal
SendBlock(r) ==
    /\ task[r].pc = "stream"
    /\ task[r].blocks # <<>>
    /\ \E outcome \in {"fp_err", "send_err", "ok"} :
         task' = [task EXCEPT ![r] = AfterSendBlock([task[r] EXCEPT !.reads = @ + 1], outcome)]
    /\ UNCHANGED <<store, dvars, mvars, xvars>>

\* A task that reads the last vote and does not send it.
AfterLastVoteOfLoadedLeaf(t, read_ok, maybe_last_vote, send_ok) ==
    IF ~read_ok THEN Ended(t, "vote_err")
    ELSE IF ~maybe_last_vote.some THEN Ended(t, "complete")
    ELSE Ended([t EXCEPT !.vote_read = Some([block_height |-> t.leaf.height]),
                         !.log = Append(@, VoteMessage(t.from, [block_height |-> t.leaf.height], send_ok))],
               "complete")

AfterLastVoteSilent(t, read_ok, maybe_last_vote, send_ok) ==
    IF ~read_ok THEN Ended(t, "vote_err")
    ELSE Ended([t EXCEPT !.vote_read = maybe_last_vote], "complete")

\* on_catch_up_sync_request.rs 156-170: the task after the read of the last
\* sent vote and the send of it
AfterLastVote(t, read_ok, maybe_last_vote, send_ok) ==
    IF ~read_ok THEN Ended(t, "vote_err")
    ELSE IF ~maybe_last_vote.some THEN Ended(t, "complete")
    ELSE Ended([t EXCEPT !.vote_read = maybe_last_vote,
                         !.log = Append(@, VoteMessage(t.from, maybe_last_vote.value, send_ok))],
               "complete")

\* A task that takes the last sent vote out of the store when it replays it.
SendLastVoteTakesVote(r) ==
    /\ task[r].pc = "stream"
    /\ task[r].blocks = <<>>
    /\ \E read_ok \in BOOLEAN, send_ok \in BOOLEAN :
         task' = [task EXCEPT ![r] =
             AfterLastVote([task[r] EXCEPT !.reads = @ + 1], read_ok, store.last_sent_vote, send_ok)]
    /\ store' = [store EXCEPT !.last_sent_vote = None]
    /\ UNCHANGED <<dvars, mvars, xvars>>

\* on_catch_up_sync_request.rs 155-170: after the loop, read the last sent
\* vote and send it when there is one
SendLastVote(r) ==
    /\ task[r].pc = "stream"
    /\ task[r].blocks = <<>>
    /\ \E read_ok \in BOOLEAN, send_ok \in BOOLEAN :
         task' = [task EXCEPT ![r] =
             AfterLastVote([task[r] EXCEPT !.reads = @ + 1], read_ok, store.last_sent_vote, send_ok)]
    /\ UNCHANGED <<store, dvars, mvars, xvars>>

\* The pacemaker accepts a proposal on top of its leaf: the block is stored,
\* the leaf moves to it and the vote for it is persisted.
PacemakerStep ==
    /\ store.leaf_block.height < MaxLeafHeight
    /\ LET h == store.leaf_block.height + 1
       IN  store' = [store EXCEPT !.leaf_block.height = h,
                                  !.blocks = @ \cup {StoredBlock(h, store.epoch)},
                                  !.last_sent_vote = Some([block_height |-> h])]
    /\ UNCHANGED <<task, dvars, mvars, xvars>>

\* One request only.
SyncOneNext ==
    \/ Handle("r1")
    \/ LoadBlocks("r1")
    \/ SendBlock("r1")
    \/ SendLastVote("r1")
    \/ PacemakerStep

SyncNext ==
    \/ \E r \in Requests : Handle(r)
    \/ \E r \in Requests : LoadBlocks(r)
    \/ \E r \in Requests : SendBlock(r)
    \/ \E r \in Requests : SendLastVote(r)
    \/ PacemakerStep

(***************************************************************************)
(* The state merkle diff: common.rs 170-201 over the staged tree store.    *)
(* The tree is kept at the grain the function sees: one node per version,  *)
(* holding the leaves of that version; its hash is the root of the version.*)
(***************************************************************************)
MaxVersion == 3

MaxPending == 2

SubstateIds == {"s1", "s2"}

\* The order of the tree keys of the substate ids.
KeyOrder == <<"s1", "s2">>

Values == {"a", "b"}

\* value.to_value_hash()
ToValueHash(value) == <<"value_hash", value>>

Down(id) == [kind |-> "Down", id |-> id]

Up(id, value_hash) == [kind |-> "Up", id |-> id, value_hash |-> value_hash]

\* A conversion that emits every Up before every Down.
DiffToSubstateChangesUpsFirst(diff) ==
    [i \in 1..Len(diff.up) |-> Up(diff.up[i].id, ToValueHash(diff.up[i].value))]
        \o [i \in 1..Len(diff.down) |-> Down(diff.down[i].id)]

\* common.rs 170-179: the downs of the diff, then its ups
DiffToSubstateChanges(diff) ==
    [i \in 1..Len(diff.down) |-> Down(diff.down[i].id)]
        \o [i \in 1..Len(diff.up) |-> Up(diff.up[i].id, ToValueHash(diff.up[i].value))]

MapPut(f, k, v) == [x \in DOMAIN f \cup {k} |-> IF x = k THEN v ELSE f[x]]

MapRemoveAll(f, ks) == [x \in DOMAIN f \ ks |-> f[x]]

MapExtend(f, g) == [x \in DOMAIN f \cup DOMAIN g |-> IF x \in DOMAIN g THEN g[x] ELSE f[x]]

NoLeaves == [x \in {} |-> x]

NoNodes == [x \in {} |-> x]

RootHash(leaves) == <<"root", leaves>>

\* StagedTreeStore::new(tx)
NewStagedTreeStore(tx) ==
    [readable_store |-> tx, preceding_pending_state |-> NoNodes,
     new_tree_nodes |-> NoNodes, new_stale_nodes |-> {}]

\* One diff layered onto the staged store: its new nodes inserted, its stale
\* nodes evicted.
ApplyDiff(st, diff) ==
    [st EXCEPT !.preceding_pending_state =
        MapRemoveAll(MapExtend(@, diff.new_nodes), diff.stale_tree_nodes)]

\* A node is looked up in the overlay first, then in the reader.
GetNode(st, version) ==
    IF version \in DOMAIN st.new_tree_nodes THEN Some(st.new_tree_nodes[version])
    ELSE IF version \in DOMAIN st.preceding_pending_state
         THEN Some(st.preceding_pending_state[version])
    ELSE IF version \in DOMAIN st.readable_store THEN Some(st.readable_store[version])
    ELSE None

RECURSIVE SortedFrom(_, _)
SortedFrom(changes, k) ==
    IF k > Len(KeyOrder) THEN <<>>
    ELSE LET OfKey(c) == c.id = KeyOrder[k]
         IN  SelectSeq(changes, OfKey) \o SortedFrom(changes, k + 1)

\* The changes sorted by key, changes of one key keeping their order.
SortByKey(changes) == SortedFrom(changes, 1)

ApplyChange(leaves, c) ==
    IF c.kind = "Up" THEN MapPut(leaves, c.id, c.value_hash)
    ELSE MapRemoveAll(leaves, {c.id})

RECURSIVE ApplyChanges(_, _)
ApplyChanges(leaves, changes) ==
    IF changes = <<>> THEN leaves
    ELSE ApplyChanges(ApplyChange(leaves, Head(changes)), Tail(changes))

PutFailed(st, err) == [ok |-> FALSE, err |-> err, root |-> None, store |-> st]

\* SpreadPrefixStateTree::put_substate_changes over the staged store
PutSubstateChanges(st, current_version, next_version, changes) ==
    IF current_version.some /\ next_version <= current_version.value
    THEN PutFailed(st, "VersionMismatch")
    ELSE LET node == IF current_version.some THEN GetNode(st, current_version.value)
                     ELSE Some(NoLeaves)
         IN  IF ~node.some THEN PutFailed(st, "MissingNode")
             ELSE IF changes = <<>>
             THEN [ok |-> TRUE, err |-> "", root |-> Some(RootHash(node.value)), store |-> st]
             ELSE LET leaves == ApplyChanges(node.value, SortByKey(changes))
                  IN  [ok |-> TRUE, err |-> "", root |-> Some(RootHash(leaves)),
                       store |-> [st EXCEPT
                           !.new_tree_nodes = MapPut(@, next_version, leaves),
                           !.new_stale_nodes = @ \cup (IF current_version.some
                                                       THEN {current_version.value}
                                                       ELSE {})]]

\* StagedTreeStore::into_diff
IntoDiff(st) == [new_nodes |-> st.new_tree_nodes, stale_tree_nodes |-> st.new_stale_nodes]

\* Layering that takes the pending diffs from the back of the vector.
NextPendingDiffFromBack(pending_tree_diffs, applied) ==
    pending_tree_diffs[Len(pending_tree_diffs) - Len(applied)].diff

\* common.rs 196: pending_tree_diffs.into_iter().map(|diff| diff.diff), the
\* diff that comes after those already applied
NextPendingDiff(pending_tree_diffs, applied) == pending_tree_diffs[Len(applied) + 1].diff

RECURSIVE ApplyOrderedDiffs(_, _, _)
ApplyOrderedDiffs(st, pending_tree_diffs, applied) ==
    IF Len(applied) >= Len(pending_tree_diffs) THEN st
    ELSE LET diff == NextPendingDiff(pending_tree_diffs, applied)
         IN  ApplyOrderedDiffs(ApplyDiff(st, diff), pending_tree_diffs, Append(applied, diff))

\* A version handed on as it is, zero included.
VersionArgAlways(current_version) == Some(current_version)

\* common.rs 199: Some(current_version).filter(|v| *v > 0)
VersionArg(current_version) == IF current_version > 0 THEN Some(current_version) ELSE None

\* common.rs 200: Ok((state_root, store.into_diff()))
MerkleOk(root, diff) == [ok |-> TRUE, err |-> "", root |-> Some(root), diff |-> Some(diff)]

\* An error of the tree turned into the root and the diff of an empty tree.
MerkleErrSwallowed(err) ==
    [ok |-> TRUE, err |-> "", root |-> Some(RootHash(NoLeaves)),
     diff |-> Some(IntoDiff(NewStagedTreeStore(NoNodes)))]

\* common.rs 199: the error of put_substate_changes, returned by `?`
MerkleErr(err) == [ok |-> FALSE, err |-> err, root |-> None, diff |-> None]

\* common.rs 181-201 as one function
CalculateStateMerkleDiff(tx, current_version, next_version, pending_tree_diffs, changes) ==
    LET staged == ApplyOrderedDiffs(NewStagedTreeStore(tx), pending_tree_diffs, <<>>)
        res    == PutSubstateChanges(staged, VersionArg(current_version), next_version, changes)
    IN  IF res.ok THEN MerkleOk(res.root.value, IntoDiff(res.store)) ELSE MerkleErr(res.err)

\* The readers: an empty tree, and a tree committed at version 1.
Readers == {NoNodes, (1 :> ("s1" :> ToValueHash("a")))}

\* The version a reader is committed at.
Committed(tx) == IF tx = NoNodes THEN 0 ELSE 1

\* The changes of the blocks whose diffs are pending.
PendingMenu == {<<Up("s1", ToValueHash("b"))>>, <<Down("s1"), Up("s2", ToValueHash("a"))>>}

\* The pending diffs of a chain of blocks, each computed over the ones before.
RECURSIVE BuildPending(_, _, _, _)
BuildPending(tx, version, todo, built) ==
    IF todo = <<>> THEN built
    ELSE LET res == CalculateStateMerkleDiff(tx, version, version + 1, built, Head(todo))
         IN  IF ~res.ok THEN built
             ELSE BuildPending(tx, version + 1, Tail(todo),
                               Append(built, [version |-> version + 1, diff |-> res.diff.value]))

IdSeqs ==
    {<<>>} \cup {<<i>> : i \in SubstateIds}
           \cup {s \in SubstateIds \X SubstateIds : s[1] # s[2]}

\* SubstateDiff: the substates downed, with their versions, and those upped,
\* with their values.
SubstateDiffs ==
    {[down |-> [k \in 1..Len(ds) |-> [id |-> ds[k], version |-> 0]],
      up   |-> [k \in 1..Len(us) |-> [id |-> us[k], value |-> vs[k]]]] :
        ds \in IdSeqs, us \in IdSeqs, vs \in [1..2 -> Values]}

MerkleInputs ==
    {[tx |-> tx, current_version |-> c, next_version |-> n,
      pending_tree_diffs |-> BuildPending(tx, Committed(tx), todo, <<>>),
      substate_diff |-> d] :
        tx \in Readers, c \in 0..MaxVersion, n \in 0..(MaxVersion + 1),
        todo \in UNION {[1..k -> PendingMenu] : k \in 0..MaxPending},
        d \in SubstateDiffs}

MerkleStart ==
    /\ m_pc = "start"
    /\ m_in \in MerkleInputs
    /\ m_changes = <<>>
    /\ m_store = None
    /\ m_applied = <<>>
    /\ m_put = None
    /\ m_root = None
    /\ m_result = None

\* The caller turns the substate diff into the changes it hands over
\* (common.rs 170-179).
SubstateChanges ==
    /\ m_pc = "start"
    /\ m_changes' = DiffToSubstateChanges(m_in.substate_diff)
    /\ m_pc' = "called"
    /\ UNCHANGED <<m_in, m_store, m_applied, m_put, m_root, m_result>>
    /\ UNCHANGED <<dvars, store, task, xvars>>

\* common.rs 195
StagedStoreNew ==
    /\ m_pc = "called"
    /\ m_store' = Some(NewStagedTreeStore(m_in.tx))
    /\ m_pc' = "apply"
    /\ UNCHANGED <<m_in, m_changes, m_applied, m_put, m_root, m_result>>
    /\ UNCHANGED <<dvars, store, task, xvars>>

\* common.rs 196: one turn of apply_ordered_diffs
ApplyOrderedDiff ==
    /\ m_pc = "apply"
    /\ Len(m_applied) < Len(m_in.pending_tree_diffs)
    /\ LET diff == NextPendingDiff(m_in.pending_tree_diffs, m_applied)
       IN  /\ m_store' = Some(ApplyDiff(m_store.value, diff))
           /\ m_applied' = Append(m_applied, diff)
    /\ UNCHANGED <<m_pc, m_in, m_changes, m_put, m_root, m_result>>
    /\ UNCHANGED <<dvars, store, task, xvars>>

\* common.rs 197-199: the changes are put; an error of the tree is returned
\* at once and the staged store is dropped
PutChanges ==
    /\ m_pc = "apply"
    /\ Len(m_applied) >= Len(m_in.pending_tree_diffs)
    /\ LET current == VersionArg(m_in.current_version)
           res == PutSubstateChanges(m_store.value, current, m_in.next_version, m_changes)
       IN  /\ m_put' = Some([store |-> m_store.value, current_version |-> current,
                             next_version |-> m_in.next_version, changes |-> m_changes])
           /\ IF res.ok
              THEN /\ m_root' = res.root
                   /\ m_store' = Some(res.store)
                   /\ m_pc' = "put"
                   /\ UNCHANGED m_result
              ELSE /\ m_result' = Some(MerkleErr(res.err))
                   /\ m_store' = None
                   /\ m_pc' = "done"
                   /\ UNCHANGED m_root
    /\ UNCHANGED <<m_in, m_changes, m_applied>>
    /\ UNCHANGED <<dvars, store, task, xvars>>

\* common.rs 200: Ok((state_root, store.into_diff()))
ReturnDiff ==
    /\ m_pc = "put"
    /\ m_result' = Some(MerkleOk(m_root.value, IntoDiff(m_store.value)))
    /\ m_store' = None
    /\ m_pc' = "done"
    /\ UNCHANGED <<m_in, m_changes, m_applied, m_put, m_root>>
    /\ UNCHANGED <<dvars, store, task, xvars>>

MerkleNext ==
    \/ SubstateChanges
    \/ StagedStoreNew
    \/ ApplyOrderedDiff
    \/ PutChanges
    \/ ReturnDiff

(***************************************************************************)
(* The watcher: monitor_child and the consumers of its channels            *)
(* (monitoring.rs).                                                        *)
(***************************************************************************)
\* The capacity of each bounded mpsc channel.
ChannelCapacity == 1

\* The statuses other tasks of the watcher may send on each status channel.
MaxSubmitted == 1

Channels == {"logging", "alerting", "restart"}

\* monitoring.rs 32-39: ProcessStatus
Running == [kind |-> "Running"]

Exited(code) == [kind |-> "Exited", code |-> code]

Crashed == [kind |-> "Crashed"]

InternalError(msg) == [kind |-> "InternalError", msg |-> msg]

Submitted(tx) == [kind |-> "Submitted", tx |-> tx]

\* The unit value of a restart pulse.
Pulse == [kind |-> "()"]

\* The results of child.wait(): an exit status, successful or not, with or
\* without a code, or an error of the wait itself.
Exits ==
    {[ok |-> TRUE, success |-> TRUE, code |-> Some(0)],
     [ok |-> TRUE, success |-> TRUE, code |-> None],
     [ok |-> TRUE, success |-> FALSE, code |-> Some(1)],
     [ok |-> TRUE, success |-> FALSE, code |-> None],
     [ok |-> FALSE, err |-> "wait failed"]}

\* A classification by the exit code alone, a missing code read as 0.
TerminalStatusByCode(exit) ==
    IF exit.ok
    THEN IF ~exit.code.some \/ exit.code.value = 0
         THEN Exited(0)
         ELSE Crashed
    ELSE InternalError(exit.err)

\* monitoring.rs 56-98: the status reported for the end of the child
TerminalStatus(exit) ==
    IF exit.ok
    THEN IF exit.success
         THEN Exited(IF exit.code.some THEN exit.code.value ELSE 0)
         ELSE Crashed
    ELSE InternalError(exit.err)

SendTo(c, status) == [to |-> c, status |-> status]

\* A monitor that sends the restart pulse before the alerting channel has the
\* terminal status.
MonitorSendsPulseEarly(exit) ==
    <<SendTo("logging", Running), SendTo("alerting", Running),
      SendTo("logging", TerminalStatus(exit)), SendTo("restart", Pulse),
      SendTo("alerting", TerminalStatus(exit))>>

\* monitoring.rs 47-55 and 58-98: the sends of monitor_child, in order; the
\* child is waited for after the second one
MonitorSends(exit) ==
    <<SendTo("logging", Running), SendTo("alerting", Running),
      SendTo("logging", TerminalStatus(exit)), SendTo("alerting", TerminalStatus(exit)),
      SendTo("restart", Pulse)>>

\* The sends that come before child.wait().
SendsBeforeWait == 2

IsTerminal(status) == status.kind \in {"Exited", "Crashed", "InternalError"}

\* The alerting clients the configuration enables (monitoring.rs 134-165).
AlertConfigs == [mattermost : BOOLEAN, telegram : BOOLEAN]

WatcherStart ==
    /\ w_pc = "sending"
    /\ w_step = 0
    /\ w_exit \in Exits
    /\ w_cfg \in AlertConfigs
    /\ chan = [c \in Channels |-> <<>>]
    /\ rx_open = [c \in Channels |-> TRUE]
    /\ tx_dropped = FALSE
    /\ log_pc = "recv"
    /\ alert_pc = "recv"
    /\ w_trace = <<>>
    /\ delivered = [c \in Channels |-> <<>>]

WatcherIdle ==
    /\ w_pc = "idle"
    /\ w_step = 0
    /\ w_exit = [ok |-> FALSE, err |-> ""]
    /\ w_cfg = [mattermost |-> FALSE, telegram |-> FALSE]
    /\ chan = [c \in Channels |-> <<>>]
    /\ rx_open = [c \in Channels |-> TRUE]
    /\ tx_dropped = FALSE
    /\ log_pc = "idle"
    /\ alert_pc = "idle"
    /\ w_trace = <<>>
    /\ delivered = [c \in Channels |-> <<>>]

\* Where monitor_child is after one more send went through.
AfterSend(step) ==
    IF step = Len(MonitorSends(w_exit)) THEN "done"
    ELSE IF step = SendsBeforeWait THEN "waiting"
    ELSE "sending"

\* One tx.send(status).await.expect(..) of monitor_child: it waits while the
\* channel is full, and panics when the receiver is gone.
MonitorSend ==
    /\ w_pc = "sending"
    /\ LET send == MonitorSends(w_exit)[w_step + 1]
       IN  IF ~rx_open[send.to]
           THEN /\ w_pc' = "panicked"
                /\ UNCHANGED <<w_step, chan, w_trace>>
           ELSE /\ Len(chan[send.to]) < ChannelCapacity
                /\ chan' = [chan EXCEPT ![send.to] = Append(@, send.status)]
                /\ w_trace' = Append(w_trace, send)
                /\ w_step' = w_step + 1
                /\ w_pc' = AfterSend(w_step + 1)
    /\ UNCHANGED <<w_exit, w_cfg, rx_open, tx_dropped, log_pc, alert_pc, delivered>>
    /\ UNCHANGED <<cvars, gvars, pvars>>

\* monitoring.rs 56: child.wait().await returns
ChildWait ==
    /\ w_pc = "waiting"
    /\ w_pc' = "sending"
    /\ UNCHANGED <<w_step, w_exit, w_cfg, chan, rx_open, tx_dropped, log_pc, alert_pc, w_trace, delivered>>
    /\ UNCHANGED <<cvars, gvars, pvars>>

\* monitoring.rs 101-132: process_status_log takes a status; after a terminal
\* one it sleeps
LogRecv ==
    /\ log_pc = "recv"
    /\ chan.logging # <<>>
    /\ chan' = [chan EXCEPT !.logging = Tail(@)]
    /\ delivered' = [delivered EXCEPT !.logging = Append(@, Head(chan.logging))]
    /\ log_pc' = IF IsTerminal(Head(chan.logging)) THEN "sleep" ELSE "recv"
    /\ UNCHANGED <<w_pc, w_step, w_exit, w_cfg, rx_open, tx_dropped, alert_pc, w_trace>>
    /\ UNCHANGED <<cvars, gvars, pvars>>

\* monitoring.rs 107, 112, 117: the sleep of five seconds ends
LogWake ==
    /\ log_pc = "sleep"
    /\ log_pc' = "recv"
    /\ UNCHANGED <<w_pc, w_step, w_exit, w_cfg, chan, rx_open, tx_dropped, alert_pc, w_trace, delivered>>
    /\ UNCHANGED <<cvars, gvars, pvars>>

\* monitoring.rs 102-103: recv returns None on the closed channel; nothing
\* leaves the loop
LogRecvNone ==
    /\ log_pc = "recv"
    /\ chan.logging = <<>>
    /\ tx_dropped
    /\ log_pc' = "closed"
    /\ UNCHANGED <<w_pc, w_step, w_exit, w_cfg, chan, rx_open, tx_dropped, alert_pc, w_trace, delivered>>
    /\ UNCHANGED <<cvars, gvars, pvars>>

\* monitoring.rs 102: the loop goes round
LogLoop ==
    /\ log_pc = "closed"
    /\ log_pc' = "recv"
    /\ UNCHANGED <<w_pc, w_step, w_exit, w_cfg, chan, rx_open, tx_dropped, alert_pc, w_trace, delivered>>
    /\ UNCHANGED <<cvars, gvars, pvars>>

\* monitoring.rs 171-240: whether handling the status may panic: an alert
\* that fails is unwrapped with expect, a ping that fails is only logged
AlertMayPanic(status, cfg) == status.kind # "Running" /\ (cfg.mattermost \/ cfg.telegram)

\* monitoring.rs 170-241: process_status_alert takes a status and alerts the
\* enabled clients; the panic drops the receiver
AlertRecv ==
    /\ alert_pc = "recv"
    /\ chan.alerting # <<>>
    /\ delivered' = [delivered EXCEPT !.alerting = Append(@, Head(chan.alerting))]
    /\ \E alert_ok \in BOOLEAN :
         IF alert_ok \/ ~AlertMayPanic(Head(chan.alerting), w_cfg)
         THEN /\ chan' = [chan EXCEPT !.alerting = Tail(@)]
              /\ UNCHANGED <<alert_pc, rx_open>>
         ELSE /\ alert_pc' = "panicked"
              /\ rx_open' = [rx_open EXCEPT !.alerting = FALSE]
              /\ chan' = [chan EXCEPT !.alerting = <<>>]
    /\ UNCHANGED <<w_pc, w_step, w_exit, w_cfg, tx_dropped, log_pc, w_trace>>
    /\ UNCHANGED <<cvars, gvars, pvars>>

\* monitoring.rs 170: recv returns None on the closed channel and the while
\* loop ends inside the outer loop
AlertRecvNone ==
    /\ alert_pc = "recv"
    /\ chan.alerting = <<>>
    /\ tx_dropped
    /\ alert_pc' = "closed"
    /\ UNCHANGED <<w_pc, w_step, w_exit, w_cfg, chan, rx_open, tx_dropped, log_pc, w_trace, delivered>>
    /\ UNCHANGED <<cvars, gvars, pvars>>

\* monitoring.rs 169: the outer loop goes round
AlertLoop ==
    /\ alert_pc = "closed"
    /\ alert_pc' = "recv"
    /\ UNCHANGED <<w_pc, w_step, w_exit, w_cfg, chan, rx_open, tx_dropped, log_pc, w_trace, delivered>>
    /\ UNCHANGED <<cvars, gvars, pvars>>

\* The receiver of the restart pulses takes one.
RestartRecv ==
    /\ chan.restart # <<>>
    /\ chan' = [chan EXCEPT !.restart = Tail(@)]
    /\ delivered' = [delivered EXCEPT !.restart = Append(@, Head(chan.restart))]
    /\ UNCHANGED <<w_pc, w_step, w_exit, w_cfg, rx_open, tx_dropped, log_pc, alert_pc, w_trace>>
    /\ UNCHANGED <<cvars, gvars, pvars>>

\* The statuses of a kind a channel holds or has delivered.
CountOf(c, kind) ==
    LET OfKind(status) == status.kind = kind
    IN  Len(SelectSeq(chan[c] \o delivered[c], OfKind))

\* Another task of the watcher sends Submitted on a status channel.
SubmittedSent ==
    /\ w_pc # "idle"
    /\ ~tx_dropped
    /\ \E c \in {"logging", "alerting"} :
         /\ rx_open[c]
         /\ Len(chan[c]) < ChannelCapacity
         /\ CountOf(c, "Submitted") < MaxSubmitted
         /\ chan' = [chan EXCEPT ![c] = Append(@, Submitted(1))]
    /\ UNCHANGED <<w_pc, w_step, w_exit, w_cfg, rx_open, tx_dropped, log_pc, alert_pc, w_trace, delivered>>
    /\ UNCHANGED <<cvars, gvars, pvars>>

\* Shutdown: monitor_child has ended and every other sender is dropped.
SendersDropped ==
    /\ w_pc \in {"done", "panicked"}
    /\ ~tx_dropped
    /\ tx_dropped' = TRUE
    /\ UNCHANGED <<w_pc, w_step, w_exit, w_cfg, chan, rx_open, log_pc, alert_pc, w_trace, delivered>>
    /\ UNCHANGED <<cvars, gvars, pvars>>

WatcherNext ==
    \/ MonitorSend
    \/ ChildWait
    \/ LogRecv
    \/ LogWake
    \/ LogRecvNone
    \/ LogLoop
    \/ AlertRecv
    \/ AlertRecvNone
    \/ AlertLoop
    \/ RestartRecv
    \/ SubmittedSent
    \/ SendersDropped

(***************************************************************************)
(* The base node client (clients/base_node_client/src/grpc.rs): one        *)
(* GrpcBaseNodeClient, its operations called one after the other through   *)
(* &mut self; one action per call up to the open stream and one per        *)
(* stream.message().await.                                                 *)
(***************************************************************************)
MaxCalls == 3
MaxStream == 2

StreamingOps ==
    {"get_validator_nodes", "get_template_registrations", "get_sidechain_utxos",
     "get_mempool_transaction_count"}

UnaryOps ==
    {"test_connection", "get_tip_info", "get_validator_node_changes", "get_shard_key",
     "get_header_by_hash", "get_consensus_constants"}

Ops == StreamingOps \cup UnaryOps

Ok(v) == [ok |-> TRUE, value |-> v]
Err(e) == [ok |-> FALSE, err |-> e]

\* The error kinds a failure converted by `?` arrives as at the caller.
ConvertedErrors == {"InvalidPeerMessage", "ConnectionError"}

\* What the base node puts on a stream: items, well-formed or with a field
\* that does not parse.
Payloads == {"a", "b"}
ItemKinds == {"ok", "malformed", "bad_hash"}
Items == [kind : ItemKinds, payload : Payloads]
StreamEnded == [kind |-> "end", payload |-> "none"]
StreamBroke == [kind |-> "error", payload |-> "none"]

\* grpc.rs 69-75 with the connection failing kept: the client is stored even
\* when the attempt failed.
ConnectionKeepsFailed(client, connect_ok, attempt) ==
    IF client.some THEN [ok |-> TRUE, client |-> client]
    ELSE [ok |-> connect_ok, client |-> Some(attempt)]

\* grpc.rs 69-75: connection(); `attempt` names the channel a new connection
\* gives
Connection(client, connect_ok, attempt) ==
    IF client.some THEN [ok |-> TRUE, client |-> client]
    ELSE IF connect_ok THEN [ok |-> TRUE, client |-> Some(attempt)]
    ELSE [ok |-> FALSE, client |-> None]

\* A stream item turned into the element of the result: grpc.rs 159-181,
\* 239-250, 312-331; the mempool count ignores the item (85-87).
Convert(op, item, converted) ==
    CASE op = "get_mempool_transaction_count" -> Ok("counted")
      [] op = "get_validator_nodes" ->
            IF item.kind = "ok"
            THEN Ok([public_key |-> item.payload, shard_key |-> <<item.payload, 0>>])
            ELSE Err("InvalidPeerMessage")
      [] op = "get_template_registrations" ->
            IF item.kind = "ok"
            THEN Ok([registration |-> item.payload])
            ELSE Err("InvalidPeerMessage")
      [] op = "get_sidechain_utxos" ->
            IF item.kind = "ok"
            THEN Ok([block_info |-> item.payload, outputs |-> <<item.payload>>])
            ELSE IF item.kind = "bad_hash" THEN Err(converted)
            ELSE Err("InvalidPeerMessage")

\* grpc.rs 91-94, 186-191, 255-260, 336-341: the error of a stream that fails
StreamError(op) ==
    IF op = "get_mempool_transaction_count" THEN "ConnectionError" ELSE "InvalidPeerMessage"

\* A stream loop that returns what it has when the stream fails.
StreamFailedPartial(op, acc, count) ==
    IF op = "get_mempool_transaction_count" THEN Ok(count) ELSE Ok(acc)

\* grpc.rs 91-94, 186-191, 255-260, 336-341: Err(e) => return Err(..)
StreamFailed(op, acc, count) == Err(StreamError(op))

\* grpc.rs 97, 199, 263, 345: the value returned after Ok(None)
StreamResult(op, acc, count) ==
    IF op = "get_mempool_transaction_count" THEN Ok(count) ELSE Ok(acc)

\* grpc.rs 78 against 104, 109, 129, 146, 207, 229, 267, 283, 302: what a
\* failed connection ends the operation with
ConnectFailed(op, converted) ==
    IF op = "get_mempool_transaction_count"
    THEN [pc |-> "panicked", result |-> None]
    ELSE [pc |-> "ready", result |-> Some(Err(converted))]

\* The replies to the first request of an operation.
Replies == {"ok", "status", "invalid"}

\* grpc.rs 103-121, 129-142, 207-221, 267-276, 283-294: the result of an
\* operation without a stream
UnaryResult(op, reply, converted) ==
    IF op = "test_connection" THEN Ok("()")
    ELSE IF reply = "status" THEN Err(converted)
    ELSE IF reply = "ok" \/ op \in {"get_validator_node_changes", "get_consensus_constants"}
    THEN Ok(op)
    ELSE IF op = "get_shard_key" THEN Err(converted)
    ELSE Err("InvalidPeerMessage")

\* grpc.rs 59-61: new()
GrpcStart ==
    /\ g_pc = "ready"
    /\ g_client = None
    /\ g_op = "none"
    /\ g_stream = <<>>
    /\ g_acc = <<>>
    /\ g_count = 0
    /\ g_result = None
    /\ g_attempts = 0
    /\ g_connects = <<>>
    /\ g_calls = 0

GrpcIdle ==
    /\ g_pc = "idle"
    /\ g_client = None
    /\ g_op = "none"
    /\ g_stream = <<>>
    /\ g_acc = <<>>
    /\ g_count = 0
    /\ g_result = None
    /\ g_attempts = 0
    /\ g_connects = <<>>
    /\ g_calls = 0

\* An operation is called: connection(), then the request; a streaming
\* operation is left with its stream open.
GrpcCall ==
    /\ g_pc = "ready"
    /\ g_calls < MaxCalls
    /\ \E op \in Ops, connect_ok \in BOOLEAN, reply \in Replies, converted \in ConvertedErrors :
         LET conn == Connection(g_client, connect_ok, g_attempts + 1)
             failed == ConnectFailed(op, converted)
         IN  /\ g_op' = op
             /\ g_calls' = g_calls + 1
             /\ g_client' = conn.client
             /\ g_attempts' = IF g_client.some THEN g_attempts ELSE g_attempts + 1
             /\ g_connects' = IF g_client.some THEN g_connects ELSE Append(g_connects, connect_ok)
             /\ g_acc' = <<>>
             /\ g_count' = 0
             /\ g_stream' = <<>>
             /\ IF ~conn.ok
                THEN /\ g_pc' = failed.pc
                     /\ g_result' = failed.result
                ELSE IF op \in UnaryOps \/ reply = "status"
                THEN /\ g_pc' = "ready"
                     /\ g_result' = Some(UnaryResult(op, reply, converted))
                ELSE /\ g_pc' = "reading"
                     /\ g_result' = None
    /\ UNCHANGED <<cvars, wvars, pvars>>

\* grpc.rs 63-67: connect() builds an unconnected client, tests the
\* connection and returns the client when the test succeeded, the error
\* otherwise
Connect(connect_ok, attempt, converted) ==
    LET conn == Connection(None, connect_ok, attempt)
    IN  IF conn.ok
        THEN [pc |-> "ready", client |-> conn.client, result |-> Some(Ok("client"))]
        ELSE [pc |-> "no_client", client |-> conn.client, result |-> Some(Err(converted))]

\* The client is built by connect() instead of new().
GrpcConnect ==
    /\ g_pc = "ready"
    /\ g_calls = 0
    /\ \E connect_ok \in BOOLEAN, converted \in ConvertedErrors :
         LET built == Connect(connect_ok, g_attempts + 1, converted)
         IN  /\ g_pc' = built.pc
             /\ g_client' = built.client
             /\ g_result' = built.result
             /\ g_connects' = Append(g_connects, connect_ok)
    /\ g_op' = "connect"
    /\ g_attempts' = g_attempts + 1
    /\ g_calls' = g_calls + 1
    /\ UNCHANGED <<g_stream, g_acc, g_count>>
    /\ UNCHANGED <<cvars, wvars, pvars>>

\* stream.message().await gives Ok(Some(item))
StreamItem ==
    /\ g_pc = "reading"
    /\ Len(g_stream) < MaxStream
    /\ \E received \in Items, converted \in ConvertedErrors :
         LET item == Convert(g_op, received, converted)
         IN  /\ g_stream' = Append(g_stream, received)
             /\ IF item.ok
                THEN /\ IF g_op = "get_mempool_transaction_count"
                        THEN g_count' = g_count + 1 /\ UNCHANGED g_acc
                        ELSE g_acc' = Append(g_acc, item.value) /\ UNCHANGED g_count
                     /\ UNCHANGED <<g_pc, g_result>>
                ELSE /\ g_pc' = "ready"
                     /\ g_result' = Some(item)
                     /\ UNCHANGED <<g_acc, g_count>>
    /\ UNCHANGED <<g_client, g_op, g_attempts, g_connects, g_calls>>
    /\ UNCHANGED <<cvars, wvars, pvars>>

\* stream.message().await gives Ok(None)
StreamEnd ==
    /\ g_pc = "reading"
    /\ g_pc' = "ready"
    /\ g_stream' = Append(g_stream, StreamEnded)
    /\ g_result' = Some(StreamResult(g_op, g_acc, g_count))
    /\ UNCHANGED <<g_client, g_op, g_acc, g_count, g_attempts, g_connects, g_calls>>
    /\ UNCHANGED <<cvars, wvars, pvars>>

\* stream.message().await gives Err(e)
StreamErr ==
    /\ g_pc = "reading"
    /\ g_pc' = "ready"
    /\ g_stream' = Append(g_stream, StreamBroke)
    /\ g_result' = Some(StreamFailed(g_op, g_acc, g_count))
    /\ UNCHANGED <<g_client, g_op, g_acc, g_count, g_attempts, g_connects, g_calls>>
    /\ UNCHANGED <<cvars, wvars, pvars>>

GrpcNext ==
    \/ GrpcCall
    \/ GrpcConnect
    \/ StreamItem
    \/ StreamEnd
    \/ StreamErr

(***************************************************************************)
(* The wallet's confidential proofs (dan_layer/wallet/crypto/src/proof.rs):*)
(* create_confidential_output_statement with generate_extended_bullet_proof*)
(* as one step, and encrypt_data / decrypt_data_and_mask, with the         *)
(* encrypted data open to change between the two.                          *)
(*                                                                         *)
(* Amount is an i64 and the encrypted data is 80 bytes in the code; the    *)
(* model keeps the two's complement arithmetic and the byte layout on      *)
(* narrower integers and shorter fields.                                   *)
(***************************************************************************)
AmountBits == 3
MaxMask == 2

\* The field sizes of EncryptedData, in bytes.
SizeTag == 1
SizeNonce == 1
SizeValue == 2
SizeMask == 1

RECURSIVE Pow2(_)
Pow2(n) == IF n = 0 THEN 1 ELSE 2 * Pow2(n - 1)

\* Amount: signed, of AmountBits bits
Amounts == {-1, 0, 2}

\* Amount::as_u64_checked
AsU64Checked(amount) == IF amount < 0 THEN None ELSE Some(amount)

\* `amount.value() as u64`: the same bits read as unsigned
AsU64(amount) == amount % Pow2(AmountBits)

Masks == 1..MaxMask
ViewKeys == {3}

\* ConfidentialProofStatement
Statements ==
    [amount : Amounts, minimum_value_promise : {0, 1}, mask : Masks,
     sender_public_nonce : {5}, encrypted_data : {<<0, 0>>},
     resource_view_key : {None} \cup {Some(k) : k \in ViewKeys}]

OptStatements == {None} \cup {Some(s) : s \in Statements}

\* The group of the commitments, written additively: scalars and points are
\* residues, GenG and GenH the two generators.
GroupOrder == 7
GenG == 1
GenH == 3

\* ConfidentialProofStatement::to_commitment: mask.G + amount.H, the amount
\* taken as an unsigned scalar
ToCommitment(stmt) == (stmt.mask * GenG + AsU64(stmt.amount) * GenH) % GroupOrder

\* Scalars are residues of the group order; a point times a scalar, and the
\* sum of two points.
Scalar(n) == n % GroupOrder
Mul(scalar, point) == (scalar * point) % GroupOrder
Add(p, q) == (p + q) % GroupOrder

\* The commitment factory: commit(k, v) = k.G + v.H
Commit(k, v) == Add(Mul(k, GenG), Mul(v, GenH))

\* What the random generator gives one proof: the ElGamal secret nonce r,
\* never zero, and the nonces x_v, x_m, x_r.
SecretNonces == {1, 2, 6}
Nonces == {0, 1, 5}
Rngs == [r : SecretNonces, x_v : Nonces, x_m : Nonces, x_r : Nonces]
StatementRngs == {[r |-> 1, x_v |-> 5, x_m |-> 0, x_r |-> 1], [r |-> 6, x_v |-> 1, x_m |-> 5, x_r |-> 0]}

\* challenges::viewable_balance_proof_challenge64: a hash of the commitment,
\* the view key and the five challenge fields, as a scalar
Challenge(commitment, view_key, fields) ==
    Scalar(2 * commitment + 3 * view_key + 5 * fields.elgamal_encrypted
           + 4 * fields.elgamal_public_nonce + 6 * fields.c_prime + fields.e_prime
           + 2 * fields.r_prime + 1)

\* RistrettoSchnorr::sign_raw_uniform(secret, nonce, e): nonce + e.secret
SignRawUniform(secret, nonce, e) == Scalar(nonce + e * secret)

\* A proof whose ElGamal encryption is to the generator, not to the view
\* key.
CreateViewableBalanceProofToGenerator(mask, output_amount, commitment, view_key, rng) ==
    LET value_as_secret == Scalar(output_amount)
        fields ==
            [elgamal_encrypted |-> Add(Mul(value_as_secret, GenG), Mul(rng.r, GenG)),
             elgamal_public_nonce |-> Mul(rng.r, GenG),
             c_prime |-> Commit(rng.x_m, rng.x_v),
             e_prime |-> Add(Mul(rng.x_v, GenG), Mul(rng.x_r, view_key)),
             r_prime |-> Mul(rng.x_r, GenG)]
        e == Challenge(commitment, view_key, fields)
    IN  [elgamal_encrypted |-> fields.elgamal_encrypted,
         elgamal_public_nonce |-> fields.elgamal_public_nonce,
         c_prime |-> fields.c_prime,
         e_prime |-> fields.e_prime,
         r_prime |-> fields.r_prime,
         s_v |-> SignRawUniform(value_as_secret, rng.x_v, e),
         s_m |-> SignRawUniform(Scalar(mask), rng.x_m, e),
         s_r |-> SignRawUniform(rng.r, rng.x_r, e)]

\* proof.rs 125-191, with what the random generator gave at 131 and 139-141
CreateViewableBalanceProof(mask, output_amount, commitment, view_key, rng) ==
    LET value_as_secret == Scalar(output_amount)
        fields ==
            [elgamal_encrypted |-> Add(Mul(value_as_secret, GenG), Mul(rng.r, view_key)),
             elgamal_public_nonce |-> Mul(rng.r, GenG),
             c_prime |-> Commit(rng.x_m, rng.x_v),
             e_prime |-> Add(Mul(rng.x_v, GenG), Mul(rng.x_r, view_key)),
             r_prime |-> Mul(rng.x_r, GenG)]
        e == Challenge(commitment, view_key, fields)
    IN  [elgamal_encrypted |-> fields.elgamal_encrypted,
         elgamal_public_nonce |-> fields.elgamal_public_nonce,
         c_prime |-> fields.c_prime,
         e_prime |-> fields.e_prime,
         r_prime |-> fields.r_prime,
         s_v |-> SignRawUniform(value_as_secret, rng.x_v, e),
         s_m |-> SignRawUniform(Scalar(mask), rng.x_m, e),
         s_r |-> SignRawUniform(rng.r, rng.x_r, e)]

\* proof.rs 281-287, 291-297: RistrettoExtendedWitness
ExtendedWitness(stmt) ==
    [mask |-> <<stmt.mask>>, value |-> AsU64(stmt.amount),
     minimum_value_promise |-> stmt.minimum_value_promise]

\* The range proof service: a proof over the witnesses, refused when a value
\* is below its minimum value promise or the witnesses are not as many as
\* the aggregation factor.
ConstructExtendedProof(agg_factor, witnesses) ==
    IF \/ Len(witnesses) # agg_factor
       \/ \E i \in 1..Len(witnesses) : witnesses[i].value < witnesses[i].minimum_value_promise
    THEN Err("RangeProofError")
    ELSE Ok(<<agg_factor>> \o witnesses)

\* The range proof service verifying an aggregated proof against the
\* commitments and the minimum value promises of the statements: the proof
\* is over as many openings, each of them opens the commitment at its place
\* to a value not below the promise of the statement; no statement, no
\* proof.
VerifyExtendedProof(proof, statements) ==
    IF statements = <<>> THEN proof = <<>>
    ELSE /\ Len(proof) = 1 + Len(statements)
         /\ proof[1] = Len(statements)
         /\ \A k \in 1..Len(statements) :
              /\ (proof[k + 1].mask[1] * GenG + proof[k + 1].value * GenH) % GroupOrder = statements[k].commitment
              /\ proof[k + 1].minimum_value_promise = statements[k].minimum_value_promise
              /\ proof[k + 1].value >= statements[k].minimum_value_promise

\* The witnesses with the change statement first.
WitnessesChangeFirst(output_statement, change_statement) ==
    (IF change_statement.some THEN <<ExtendedWitness(change_statement.value)>> ELSE <<>>)
        \o (IF output_statement.some THEN <<ExtendedWitness(output_statement.value)>> ELSE <<>>)

\* proof.rs 277-299: extended_witnesses
Witnesses(output_statement, change_statement) ==
    (IF output_statement.some THEN <<ExtendedWitness(output_statement.value)>> ELSE <<>>)
        \o (IF change_statement.some THEN <<ExtendedWitness(change_statement.value)>> ELSE <<>>)

\* proof.rs 268-303
GenerateExtendedBulletProof(output_statement, change_statement) ==
    IF ~output_statement.some /\ ~change_statement.some
    THEN Ok(<<>>)
    ELSE LET extended_witnesses == Witnesses(output_statement, change_statement)
         IN  ConstructExtendedProof(Len(extended_witnesses), extended_witnesses)

Panic == [ok |-> FALSE, panic |-> TRUE]
Failed(e) == [ok |-> FALSE, panic |-> FALSE, err |-> e]
Returned(v) == [ok |-> TRUE, panic |-> FALSE, value |-> v]

\* A statement that promises no minimum value, whatever the input says.
ConfidentialStatementNoPromise(stmt, amount, rng) ==
    [commitment |-> ToCommitment(stmt),
     sender_public_nonce |-> stmt.sender_public_nonce,
     encrypted_data |-> stmt.encrypted_data,
     minimum_value_promise |-> 0,
     viewable_balance_proof |-> None]

\* proof.rs 64-79 and 90-99: ConfidentialStatement
ConfidentialStatement(stmt, amount, rng) ==
    [commitment |-> ToCommitment(stmt),
     sender_public_nonce |-> stmt.sender_public_nonce,
     encrypted_data |-> stmt.encrypted_data,
     minimum_value_promise |-> stmt.minimum_value_promise,
     viewable_balance_proof |->
        IF stmt.resource_view_key.some
        THEN Some(CreateViewableBalanceProof(stmt.mask, amount, ToCommitment(stmt), stmt.resource_view_key.value, rng))
        ELSE None]

\* proof.rs 61-81: the change statement; the amount is unwrapped only when
\* a view key asks for the viewable balance proof
ChangeUnwrapPanics(change_statement) ==
    /\ change_statement.some
    /\ change_statement.value.resource_view_key.some
    /\ ~AsU64Checked(change_statement.value.amount).some

\* proof.rs 55-111; rngs is what the random generator gives the viewable
\* balance proof of the change and of the output statement
CreateConfidentialOutputStatement(output_statement, output_revealed_amount, change_statement, change_revealed_amount, rngs) ==
    LET confidential_output_value ==
            AsU64Checked(IF output_statement.some THEN output_statement.value.amount ELSE 0)
        output_range_proof == GenerateExtendedBulletProof(output_statement, change_statement)
    IN  IF ChangeUnwrapPanics(change_statement) THEN Panic
        ELSE IF ~confidential_output_value.some THEN Failed("NegativeAmount")
        ELSE IF ~output_range_proof.ok THEN Failed(output_range_proof.err)
        ELSE Returned(
            [output_statement |->
                IF output_statement.some
                THEN Some(ConfidentialStatement(output_statement.value, confidential_output_value.value, rngs.output))
                ELSE None,
             change_statement |->
                IF change_statement.some
                THEN Some(ConfidentialStatement(change_statement.value, change_statement.value.amount, rngs.change))
                ELSE None,
             range_proof |-> output_range_proof.value,
             output_revealed_amount |-> output_revealed_amount,
             change_revealed_amount |-> change_revealed_amount])

(***************************************************************************)
(* Bytes, and the authenticated encryption of the value and the mask.      *)
(***************************************************************************)
Byte == 256

RECURSIVE XorBits(_, _, _)
XorBits(a, b, n) ==
    IF n = 0 THEN 0
    ELSE (((a % 2) + (b % 2)) % 2) + 2 * XorBits(a \div 2, b \div 2, n - 1)

Xor(a, b) == XorBits(a, b, 8)

RECURSIVE XorAll(_)
XorAll(bytes) == IF bytes = <<>> THEN 0 ELSE Xor(Head(bytes), XorAll(Tail(bytes)))

\* A value as n bytes, most significant first.
RECURSIVE ToBeBytes(_, _)
ToBeBytes(value, n) ==
    IF n = 0 THEN <<>> ELSE Append(ToBeBytes(value \div Byte, n - 1), value % Byte)

\* u64::to_le_bytes, on n bytes
RECURSIVE ToLeBytes(_, _)
ToLeBytes(value, n) ==
    IF n = 0 THEN <<>> ELSE <<value % Byte>> \o ToLeBytes(value \div Byte, n - 1)

\* u64::from_le_bytes
RECURSIVE FromLeBytes(_)
FromLeBytes(bytes) ==
    IF bytes = <<>> THEN 0 ELSE Head(bytes) + Byte * FromLeBytes(Tail(bytes))

\* RistrettoSecretKey::as_bytes and from_canonical_bytes
MaskAsBytes(mask) == ToLeBytes(mask, SizeMask)
MaskFromCanonicalBytes(bytes) == FromLeBytes(bytes)

\* proof.rs 113-123: the key of the cipher, a hash of the encryption key and
\* the commitment
InnerEncryptedDataKdfAead(encryption_key, commitment) ==
    (encryption_key * 31 + commitment * 17 + 7) % Byte

\* The cipher: a key stream over the payload, and a tag over the nonce and
\* the ciphertext that no change of one bit leaves valid.
KeyStream(aead_key, nonce, i) == (aead_key * 13 + XorAll(nonce) * 29 + i * 101 + 5) % Byte

ApplyKeyStream(aead_key, nonce, bytes) ==
    [i \in 1..Len(bytes) |-> Xor(bytes[i], KeyStream(aead_key, nonce, i))]

TagOf(aead_key, nonce, ciphertext) ==
    [j \in 1..SizeTag |-> Xor(XorAll(nonce \o ciphertext), (aead_key + j) % Byte)]

\* proof.rs 201-211 and EncryptedData: tag, then nonce, then payload
TagSlice(bytes) == SubSeq(bytes, 1, SizeTag)
NonceSlice(bytes) == SubSeq(bytes, SizeTag + 1, SizeTag + SizeNonce)
PayloadSlice(bytes) == SubSeq(bytes, SizeTag + SizeNonce + 1, Len(bytes))

\* proof.rs 195-237, the nonce being what the generator gave
EncryptData(encryption_key, commitment, value, mask, nonce) ==
    LET aead_key == InnerEncryptedDataKdfAead(encryption_key, commitment)
        payload == ToLeBytes(value, SizeValue) \o MaskAsBytes(mask)
        ciphertext == ApplyKeyStream(aead_key, nonce, payload)
    IN  Ok(TagOf(aead_key, nonce, ciphertext) \o nonce \o ciphertext)

\* proof.rs 239-266
DecryptDataAndMask(encryption_key, commitment, encrypted_data) ==
    LET tag == TagSlice(encrypted_data)
        nonce == NonceSlice(encrypted_data)
        aead_key == InnerEncryptedDataKdfAead(encryption_key, commitment)
        bytes == ApplyKeyStream(aead_key, nonce, PayloadSlice(encrypted_data))
    IN  IF tag # TagOf(aead_key, nonce, PayloadSlice(encrypted_data))
        THEN Err("aead::Error")
        ELSE Ok(<<FromLeBytes(SubSeq(bytes, 1, SizeValue)),
                  MaskFromCanonicalBytes(SubSeq(bytes, SizeValue + 1, SizeValue + SizeMask))>>)

\* One bit of one byte changed.
FlipBit(bytes, i, bit) == [bytes EXCEPT ![i] = Xor(@, Pow2(bit))]

\* The inputs of encrypt_data: keys, commitments, values up to the largest
\* of SizeValue bytes, nonces.
EncryptInputs ==
    [encryption_key : {1, 2}, commitment : {0, 4},
     value : {0, 100, Byte, Pow2(8 * SizeValue) - 1}, mask : Masks,
     nonce : {[i \in 1..SizeNonce |-> n] : n \in {0, 9}}]

NoEncryptInput == [encryption_key |-> 0]

ProofStart ==
    /\ p_pc = "ready"
    /\ p_call = None
    /\ p_result = None
    /\ v_in = None
    /\ v_proof = None
    /\ e_in = NoEncryptInput
    /\ e_data = None
    /\ e_flip = None
    /\ e_out = None

ProofIdle ==
    /\ p_pc = "idle"
    /\ p_call = None
    /\ p_result = None
    /\ v_in = None
    /\ v_proof = None
    /\ e_in = NoEncryptInput
    /\ e_data = None
    /\ e_flip = None
    /\ e_out = None

\* create_confidential_output_statement is called
CreateOutputStatement ==
    /\ p_pc = "ready"
    /\ \E output \in OptStatements, change \in OptStatements, revealed \in {0, 1}, rngs \in [output : StatementRngs, change : StatementRngs] :
         /\ p_call' = Some([output_statement |-> output, change_statement |-> change,
                            output_revealed_amount |-> revealed, change_revealed_amount |-> 1 - revealed])
         /\ p_result' = Some(CreateConfidentialOutputStatement(output, revealed, change, 1 - revealed, rngs))
    /\ p_pc' = "created"
    /\ UNCHANGED <<v_in, v_proof, e_in, e_data, e_flip, e_out>>
    /\ UNCHANGED <<cvars, wvars, gvars>>

\* The view secrets, and the view key of a secret.
ViewSecrets == {3, 5}
ViewKeyOf(view_secret) == Mul(view_secret, GenG)

\* create_viewable_balance_proof is called, as at proof.rs 72-77 and 97,
\* with the commitment of the amount under the mask
ViewableBalanceProof ==
    /\ p_pc = "ready"
    /\ \E mask \in Masks, output_amount \in 0..(Pow2(AmountBits) - 1), view_secret \in ViewSecrets, rng \in Rngs :
         LET commitment == Commit(Scalar(mask), Scalar(output_amount))
         IN  /\ v_in' = Some([mask |-> mask, output_amount |-> output_amount, commitment |-> commitment,
                              view_key |-> ViewKeyOf(view_secret)])
             /\ v_proof' = Some(CreateViewableBalanceProof(mask, output_amount, commitment, ViewKeyOf(view_secret), rng))
    /\ p_pc' = "proved"
    /\ UNCHANGED <<p_call, p_result, e_in, e_data, e_flip, e_out>>
    /\ UNCHANGED <<cvars, wvars, gvars>>

\* encrypt_data is called
Encrypt ==
    /\ p_pc = "ready"
    /\ \E in \in EncryptInputs :
         /\ e_in' = in
         /\ e_data' = Some(EncryptData(in.encryption_key, in.commitment, in.value, in.mask, in.nonce).value)
    /\ p_pc' = "encrypted"
    /\ UNCHANGED <<p_call, p_result, v_in, v_proof, e_flip, e_out>>
    /\ UNCHANGED <<cvars, wvars, gvars>>

\* One bit of the encrypted data is changed on its way.
Tamper ==
    /\ p_pc = "encrypted"
    /\ ~e_flip.some
    /\ ~e_out.some
    /\ \E i \in 1..Len(e_data.value), bit \in 0..7 :
         /\ e_data' = Some(FlipBit(e_data.value, i, bit))
         /\ e_flip' = Some([byte |-> i, bit |-> bit])
    /\ UNCHANGED <<p_pc, p_call, p_result, v_in, v_proof, e_in, e_out>>
    /\ UNCHANGED <<cvars, wvars, gvars>>

\* decrypt_data_and_mask is called with the key and the commitment of the
\* encryption
Decrypt ==
    /\ p_pc = "encrypted"
    /\ ~e_out.some
    /\ e_out' = Some(DecryptDataAndMask(e_in.encryption_key, e_in.commitment, e_data.value))
    /\ UNCHANGED <<p_pc, p_call, p_result, v_in, v_proof, e_in, e_data, e_flip>>
    /\ UNCHANGED <<cvars, wvars, gvars>>

ProofNext ==
    \/ CreateOutputStatement
    \/ ViewableBalanceProof
    \/ Encrypt
    \/ Tamper
    \/ Decrypt

(***************************************************************************)
(* The specifications.                                                     *)
(***************************************************************************)
DummyIdle ==
    /\ d_pc = "idle"
    /\ d_in = [entry |-> "none"]
    /\ d_args = NoArgs
    /\ parent_block = NoLeaf
    /\ current_height = 0
    /\ visited = <<>>
    /\ dummy = None
    /\ dummies = <<>>

SyncIdle ==
    /\ store = [epoch |-> 2, leaf_block |-> [height |-> 0, epoch |-> 2],
                last_proposed |-> None, last_sent_vote |-> None,
                blocks |-> {StoredBlock(0, 2)}]
    /\ task = [r \in Requests |-> IdleTask]

MerkleIdle ==
    /\ m_pc = "idle"
    /\ m_in = [entry |-> "none"]
    /\ m_changes = <<>>
    /\ m_store = None
    /\ m_applied = <<>>
    /\ m_put = None
    /\ m_root = None
    /\ m_result = None

\* The parts of the model beside the consensus code, at rest.
OthersIdle == WatcherIdle /\ GrpcIdle /\ ProofIdle

DummyInit == DummyStart /\ SyncIdle /\ MerkleIdle /\ OthersIdle

SyncInit == SyncStart /\ DummyIdle /\ MerkleIdle /\ OthersIdle

MerkleInit == MerkleStart /\ DummyIdle /\ SyncIdle /\ OthersIdle

ConsensusIdle == DummyIdle /\ SyncIdle /\ MerkleIdle

WatcherInit == WatcherStart /\ ConsensusIdle /\ GrpcIdle /\ ProofIdle

GrpcInit == GrpcStart /\ ConsensusIdle /\ WatcherIdle /\ ProofIdle

ProofInit == ProofStart /\ ConsensusIdle /\ WatcherIdle /\ GrpcIdle

SyncOneInit ==
    /\ SyncStart \/ store \in LongStores
    /\ task = [r \in Requests |-> IdleTask]
    /\ DummyIdle
    /\ MerkleIdle
    /\ OthersIdle

\* Dummy block synthesis: one call of an entry point, from any input.
SpecDummy == DummyInit /\ [][DummyNext]_vars

\* The same, the call running to its end: the code is sequential.
SpecDummyLive == DummyInit /\ [][DummyNext]_vars /\ WF_vars(DummyNext)

\* The sync handler serving its requests beside the pacemaker.
SpecSync == SyncInit /\ [][SyncNext]_vars

\* The sync handler serving one request, also from a chain as long as the
\* limit of a response.
SpecSyncOne == SyncOneInit /\ [][SyncOneNext]_vars

\* One call of calculate_state_merkle_diff, from any input.
SpecMerkle == MerkleInit /\ [][MerkleNext]_vars

\* One child under monitor_child, the consumers of the channels beside it.
SpecWatcher == WatcherInit /\ [][WatcherNext]_vars

SpecGrpc == GrpcInit /\ [][GrpcNext]_vars

SpecProof == ProofInit /\ [][ProofNext]_vars

(***************************************************************************)
(* Properties of dummy block synthesis.                                    *)
(***************************************************************************)
EntryHighQc == IF d_in.entry = "last" THEN d_in.high_qc ELSE d_in.candidate_block.justify

EntryNewHeight == IF d_in.entry = "last" THEN d_in.new_height ELSE d_in.candidate_block.height

EntryCommittee == d_in.local_committee

\* The visitor of the call returned Break for one of the blocks handed to it.
VisitorBroke ==
    /\ d_in.entry = "all"
    /\ \E i \in 1..Len(visited) : visited[i].id = d_in.candidate_block.parent

\* C1: the dummy blocks handed to the visitor form a chain: the first has
\* height high_qc.block_height + 1 and parent high_qc.block_id, every later
\* one has the height of the one before plus one and its id as parent.
C1_DummiesFormChain ==
    d_pc # "idle" =>
        \A i \in 1..Len(visited) :
            IF i = 1
            THEN /\ visited[1].height = EntryHighQc.block_height + 1
                 /\ visited[1].parent = EntryHighQc.block_id
            ELSE /\ visited[i].height = visited[i - 1].height + 1
                 /\ visited[i].parent = visited[i - 1].id

C1_Witness == d_pc = "done" /\ Len(visited) >= 3

\* C2: when high_qc.block_height < new_height and the visitor never breaks,
\* the call ends, having invoked the visitor once for each height above
\* high_qc.block_height up to new_height, and calculate_last_dummy_block
\* returns the leaf of the dummy of height new_height.
C2_VisitsEveryHeightAndEnds ==
    /\ [](d_pc = "done" /\ EntryHighQc.block_height < EntryNewHeight /\ ~VisitorBroke
            => /\ Len(visited) = EntryNewHeight - EntryHighQc.block_height
               /\ \A i \in 1..Len(visited) : visited[i].height = EntryHighQc.block_height + i
               /\ d_in.entry = "last"
                    => /\ dummy = Some(BlockAsLeafBlock(visited[Len(visited)]))
                       /\ dummy.value.height = EntryNewHeight)
    /\ (d_pc = "entry" /\ EntryHighQc.block_height < EntryNewHeight) ~> (d_pc = "done")

C2_Witness ==
    /\ d_pc = "done"
    /\ d_in.entry = "last"
    /\ Len(visited) = 3
    /\ dummy.some
    /\ dummy.value.height = EntryNewHeight

\* C3: if high_qc.block_height + 1 > new_height the visitor is never invoked,
\* calculate_last_dummy_block returns None and calculate_dummy_blocks returns
\* an empty vector.
C3_NothingAboveNewHeight ==
    (d_pc # "idle" /\ EntryHighQc.block_height + 1 > EntryNewHeight)
        => /\ visited = <<>>
           /\ dummy = None
           /\ dummies = <<>>

C3_Witness ==
    /\ d_pc = "done"
    /\ EntryHighQc.block_height + 1 > EntryNewHeight

\* C4: the proposer of every dummy block is the leader the strategy selects
\* for the committee at that dummy block's own height.
C4_ProposerIsLeaderOfOwnHeight ==
    d_pc # "idle" =>
        \A i \in 1..Len(visited) :
            visited[i].proposed_by = GetLeaderPublicKey(EntryCommittee, visited[i].height)

C4_Witness ==
    /\ d_pc = "done"
    /\ Len(visited) >= 2
    /\ visited[1].proposed_by # visited[2].proposed_by

\* The number of dummy blocks of a call whose visitor never breaks.
FullLength ==
    IF EntryNewHeight > EntryHighQc.block_height
    THEN EntryNewHeight - EntryHighQc.block_height ELSE 0

\* C5: calculate_dummy_blocks returns the dummy chain from height
\* justify.block_height + 1 up to and including the first dummy whose id is
\* candidate.parent_id, or the whole chain up to candidate.height when there
\* is none; a returned dummy has that id exactly when it is the last one.
C5_ChainUpToParent ==
    (d_pc = "done" /\ d_in.entry = "all") =>
        LET chain == DummyChain(AllArgs(d_in), FullLength)
            hits == {k \in 1..FullLength : chain[k].id = d_in.candidate_block.parent}
            first == CHOOSE k \in hits : \A j \in hits : k <= j
        IN  /\ dummies = IF hits = {} THEN chain ELSE SubSeq(chain, 1, first)
            /\ \A i \in 1..Len(dummies) :
                 dummies[i].id = d_in.candidate_block.parent => i = Len(dummies)
            /\ hits # {} <=> /\ dummies # <<>>
                             /\ dummies[Len(dummies)].id = d_in.candidate_block.parent

C5_Witness ==
    /\ d_pc = "done"
    /\ d_in.entry = "all"
    /\ Len(dummies) >= 2
    /\ Len(dummies) < FullLength
    /\ dummies[Len(dummies)].id = d_in.candidate_block.parent

(***************************************************************************)
(* Properties of the catch-up sync handler.                                *)
(***************************************************************************)
IsProposal(m) == m.kind = "Proposal"

IsVote(m) == m.kind = "Vote"

\* The Proposal and Vote messages a task handed to send, in order.
Proposals(t) == SelectSeq(t.log, IsProposal)

Votes(t) == SelectSeq(t.log, IsVote)

ProposalHeights(t) == [i \in 1..Len(Proposals(t)) |-> Proposals(t)[i].block.height]

\* The heights from a to b, ascending.
HeightsFromTo(a, b) == [i \in 1..(IF b >= a THEN b - a + 1 ELSE 0) |-> a + i - 1]

EverySendSucceeded(t) == \A i \in 1..Len(t.log) : t.log[i].ok

\* The response ran to its end with every read succeeding.
RanToEnd(t) == t.pc = "ended" /\ t.end = "complete"

\* C6 as stated: a response in the local epoch with the high QC at height H,
\* the leaf at L > H, L - H at most 1000 and every send succeeding streams
\* exactly the blocks of heights H+1 to L.
C6_Original ==
    \A r \in Requests :
        LET t == task[r]
            H == t.high_qc.block_height
            L == t.leaf.height
        IN  (RanToEnd(t) /\ EverySendSucceeded(t) /\ L > H /\ L - H <= SyncLimit)
                => ProposalHeights(t) = HeightsFromTo(H + 1, L)

\* C6: a response in the local epoch with the high QC at height H, the leaf at
\* L > H, L - H less than 1000 and every read and send succeeding streams
\* exactly the stored blocks of heights H to L, the genesis block left out,
\* each as one Proposal message to the requester.
C6_StreamsFromHighQcToLeaf ==
    \A r \in Requests :
        LET t == task[r]
            H == t.high_qc.block_height
            L == t.leaf.height
        IN  (RanToEnd(t) /\ EverySendSucceeded(t) /\ L > H /\ L - H < SyncLimit)
                => /\ t.high_qc.epoch = t.epoch
                   /\ ProposalHeights(t) = HeightsFromTo(IF H = 0 THEN 1 ELSE H, L)
                   /\ \A i \in 1..Len(Proposals(t)) :
                        /\ Proposals(t)[i].block \in store.blocks
                        /\ Proposals(t)[i].to = t.from

C6_Witness ==
    \E r \in Requests :
        /\ RanToEnd(task[r]) /\ EverySendSucceeded(task[r])
        /\ task[r].high_qc.block_height = 1
        /\ task[r].leaf.height = 3
        /\ ProposalHeights(task[r]) = <<1, 2, 3>>

\* C7: the Proposal messages of one response are sent in strictly ascending
\* block height, also when the genesis block was removed from the loaded list.
C7_ProposalsAscend ==
    \A r \in Requests :
        \A i, j \in 1..Len(Proposals(task[r])) :
            i < j => Proposals(task[r])[i].block.height < Proposals(task[r])[j].block.height

C7_Witness ==
    \E r \in Requests :
        /\ task[r].high_qc.block_height = 0
        /\ Len(Proposals(task[r])) >= 3

\* Every block of the response was sent, each send succeeding.
EveryProposalSent(t) ==
    /\ t.pc = "ended"
    /\ t.end \in {"vote_err", "complete"}
    /\ t.blocks = <<>>
    /\ \A i \in 1..Len(t.log) : IsProposal(t.log[i]) => t.log[i].ok

\* The last message handed to send is the Vote for the given vote, and it is
\* the only Vote.
VoteSentOnceAtEnd(t, vote) ==
    /\ Len(Votes(t)) = 1
    /\ t.log # <<>>
    /\ IsVote(t.log[Len(t.log)])
    /\ t.log[Len(t.log)].vote = vote
    /\ t.log[Len(t.log)].to = t.from

IsPrefix(s, t) == Len(s) <= Len(t) /\ SubSeq(t, 1, Len(s)) = s

\* C9: when the send of a Proposal or the read of the foreign proposals of a
\* block fails, the response ends there: the failed send is the last one, no
\* Vote is sent, the task sends nothing from then on, and what was sent
\* before stays sent and is not sent again.
C9_FailureEndsResponse ==
    /\ [](\A r \in Requests :
            LET t == task[r]
            IN  /\ t.end \in {"fp_err", "send_err"}
                    => /\ t.pc = "ended"
                       /\ Votes(t) = <<>>
                       /\ t.vote_read = None
                       /\ t.blocks # <<>>
                /\ \A i \in 1..Len(t.log) :
                     (IsProposal(t.log[i]) /\ ~t.log[i].ok)
                        => i = Len(t.log) /\ t.end = "send_err")
    /\ [][\A r \in Requests :
            /\ task[r].pc = "ended" => task'[r] = task[r]
            /\ task[r].pc # "idle" => IsPrefix(task[r].log, task'[r].log)]_vars

C9_Witness ==
    \E r \in Requests :
        /\ task[r].end = "send_err"
        /\ Len(task[r].log) >= 2
        /\ Len(task[r].blocks) >= 2
        /\ store.last_sent_vote.some

\* C10: a request whose high_qc.epoch is not the local epoch is turned away
\* by handle: no task is spawned, the store is not read, nothing is sent.
C10_OtherEpochRejected ==
    \A r \in Requests :
        LET t == task[r]
        IN  (t.pc # "idle" /\ t.high_qc.epoch # t.epoch)
                => /\ t.pc = "returned"
                   /\ ~t.spawned
                   /\ t.reads = 0
                   /\ t.log = <<>>

C10_Witness ==
    \E r, q \in Requests :
        /\ task[r].pc = "returned"
        /\ task[r].high_qc.epoch > task[r].epoch
        /\ task[q].pc = "ended"
        /\ task[q].log # <<>>

(***************************************************************************)
(* The sync handler: the leaf, the genesis block, the limit, the task.     *)
(***************************************************************************)
\* The read transaction of the task went through.
Loaded(t) == t.pc = "stream" \/ (t.pc = "ended" /\ t.end # "load_err")

NonGenesis(b) == ~IsGenesis(b)

\* C11: a request whose high_qc is above the local leaf is answered with no
\* message at all, neither a Proposal nor a Vote.
C11_PeerAheadGetsNothing ==
    \A r \in Requests :
        LET t == task[r]
        IN  (Loaded(t) /\ t.high_qc.block_height > t.leaf.height)
                => (Proposals(t) = <<>> /\ Votes(t) = <<>>)

\* C12: when the leaf the task works with has height zero, no message of any
\* kind is sent for the request.
C12_ZeroLeafRepliesNothing ==
    \A r \in Requests :
        LET t == task[r]
        IN  (Loaded(t) /\ t.leaf.height = 0) => t.log = <<>>

\* C13: the leaf the task works with is the higher of LeafBlock and
\* LastProposed as the store holds them when the blocks are loaded; it is
\* LastProposed only when that is present and strictly higher, it is never
\* below LeafBlock, and it is the upper end of the range that is loaded.
C13_LeafIsHigherOfLeafAndLastProposed ==
    [][\A r \in Requests :
        (task[r].pc = "spawned" /\ Loaded(task'[r])) =>
            LET lb == store.leaf_block.height
                lp == store.last_proposed
                used == task'[r].leaf.height
            IN  /\ used = IF lp.some /\ lp.value.height > lb THEN lp.value.height ELSE lb
                /\ used >= lb
                /\ used # lb => (lp.some /\ lp.value.height > lb)
                /\ (task'[r].pc = "stream" /\ used > 0) =>
                       /\ task'[r].blocks # <<>>
                       /\ task'[r].blocks[Len(task'[r].blocks)].height = used]_vars

C13_Witness ==
    \E r \in Requests :
        LET t == task[r]
        IN  /\ t.pc = "stream"
            /\ store.last_proposed.some
            /\ store.last_proposed.value.height = t.leaf.height
            /\ store.leaf_block.height < t.leaf.height
            /\ t.blocks # <<>>
            /\ t.blocks[Len(t.blocks)].height = t.leaf.height

\* C14: no Proposal carries a genesis block: the blocks the task streams are
\* the blocks the store returned for the range without the genesis block,
\* every other block kept, in the order they were returned.
C14_NoGenesisProposal ==
    /\ [](\A r \in Requests :
            /\ \A i \in 1..Len(task[r].log) :
                   IsProposal(task[r].log[i]) => ~IsGenesis(task[r].log[i].block)
            /\ \A i \in 1..Len(task[r].blocks) : ~IsGenesis(task[r].blocks[i]))
    /\ [][\A r \in Requests :
            (task[r].pc = "spawned" /\ task'[r].pc = "stream") =>
                task'[r].blocks =
                    SelectSeq(GetAllBlocksBetween(store.blocks, task'[r].leaf.epoch,
                                  task[r].high_qc.block_height, task'[r].leaf.height,
                                  TRUE, SyncLimit),
                              NonGenesis)]_vars

C14_Witness ==
    \E r \in Requests :
        LET t == task[r]
        IN  /\ RanToEnd(t)
            /\ t.high_qc.block_height = 0
            /\ Len(Proposals(t)) >= 2
            /\ EverySendSucceeded(t)

\* C15: one response carries at most 1000 Proposals; when the range from the
\* high_qc to the leaf holds more blocks, the Proposals are those of the
\* lowest heights of the range and stop below the leaf.
C15_AtMostLimitProposals ==
    \A r \in Requests :
        LET t == task[r]
            H == t.high_qc.block_height
        IN  /\ Len(Proposals(t)) <= SyncLimit
            /\ Len(t.blocks) <= SyncLimit
            /\ (RanToEnd(t) /\ t.leaf.height - H + 1 > SyncLimit) =>
                   /\ ProposalHeights(t) =
                          HeightsFromTo((IF H = 0 THEN 1 ELSE H), H + SyncLimit - 1)
                   /\ H + SyncLimit - 1 < t.leaf.height

C15_Witness ==
    \E r \in Requests :
        LET t == task[r]
        IN  /\ RanToEnd(t)
            /\ t.leaf.height - t.high_qc.block_height + 1 > SyncLimit
            /\ Len(Proposals(t)) = SyncLimit

\* C16: handle returns before any read of the store and before any send, the
\* response being left to the task it spawned, and it can be entered for a
\* further request whatever the tasks of earlier requests are doing.
C16_HandleDoesNotBlock ==
    /\ [](\A r \in Requests : task[r].pc = "idle" => ENABLED Handle(r))
    /\ [][\A r \in Requests :
            (task[r].pc = "idle" /\ task'[r].pc # "idle") =>
                /\ task'[r].reads = 0
                /\ task'[r].log = <<>>
                /\ task'[r].pc \in {"returned", "spawned"}
                /\ task'[r].spawned <=> task'[r].pc = "spawned"
                /\ store' = store]_vars

\* Two responses in the middle of their streams, each with Proposals sent and
\* Proposals to send.
C16_Witness ==
    \E r \in Requests, q \in Requests :
        /\ r # q
        /\ task[r].pc = "stream" /\ task[q].pc = "stream"
        /\ Proposals(task[r]) # <<>> /\ task[r].blocks # <<>>
        /\ Proposals(task[q]) # <<>> /\ task[q].blocks # <<>>

(***************************************************************************)
(* The state merkle diff.                                                  *)
(***************************************************************************)
\* The staged store with the first n pending diffs layered in the order of
\* the vector.
RECURSIVE Layered(_, _, _)
Layered(tx, pending_tree_diffs, n) ==
    IF n = 0 THEN NewStagedTreeStore(tx)
    ELSE ApplyDiff(Layered(tx, pending_tree_diffs, n - 1), pending_tree_diffs[n].diff)

\* The reorderings of a sequence.
Reorderings(s) == {[i \in 1..Len(s) |-> s[f[i]]] : f \in Permutations(1..Len(s))}

MerkleDone == m_pc = "done" /\ m_result.some

\* C17: the pending diffs are layered in the order of the vector, all of them
\* before the changes are put, and the root is the one the tree computes over
\* the store that holds every pending diff.
C17_PendingDiffsInOrderBeforePut ==
    LET pending == m_in.pending_tree_diffs
    IN  /\ m_pc \in {"apply", "put", "done"} =>
               /\ Len(m_applied) <= Len(pending)
               /\ \A i \in 1..Len(m_applied) : m_applied[i] = pending[i].diff
        /\ m_pc = "apply" =>
               /\ m_put = None
               /\ m_store = Some(Layered(m_in.tx, pending, Len(m_applied)))
        /\ m_put.some =>
               /\ Len(m_applied) = Len(pending)
               /\ m_put.value.store = Layered(m_in.tx, pending, Len(pending))
               /\ m_put.value.changes = m_changes
        /\ m_root.some =>
               m_root = PutSubstateChanges(Layered(m_in.tx, pending, Len(pending)),
                            m_put.value.current_version, m_in.next_version, m_changes).root

C17_Witness ==
    /\ MerkleDone /\ m_result.value.ok
    /\ Len(m_applied) >= 2
    /\ m_applied[1] # m_applied[2]
    /\ m_in.current_version = Committed(m_in.tx) + Len(m_applied)

\* C18: put_substate_changes is handed Some(current_version) exactly when
\* current_version is above zero and None when it is zero, whatever
\* next_version is.
C18_CurrentVersionSomeIffPositive ==
    m_put.some =>
        /\ m_put.value.current_version.some <=> m_in.current_version > 0
        /\ m_put.value.current_version.some =>
               m_put.value.current_version.value = m_in.current_version
        /\ m_in.current_version = 0 => m_put.value.current_version = None
        /\ m_put.value.next_version = m_in.next_version

C18_Witness ==
    /\ m_put.some
    /\ m_in.current_version = 0
    /\ m_put.value.current_version = None
    /\ m_in.next_version = 0

\* The error the tree reports for the arguments it was called with, if any.
TreeReports(err) ==
    /\ m_put.some
    /\ LET res == PutSubstateChanges(m_put.value.store, m_put.value.current_version,
                                     m_put.value.next_version, m_put.value.changes)
       IN  ~res.ok /\ res.err = err

\* An error result: no root, no diff, the staged store dropped.
ReturnsOnly(err) ==
    /\ m_result = Some([ok |-> FALSE, err |-> err, root |-> None, diff |-> None])
    /\ m_store = None
    /\ m_root = None

\* C19 as stated: every call with next_version <= current_version ends in
\* VersionMismatch, and an error of the tree is returned with nothing else.
C19_Original ==
    MerkleDone =>
        /\ m_in.next_version <= m_in.current_version => ReturnsOnly("VersionMismatch")
        /\ \A err \in {"VersionMismatch", "MissingNode"} : TreeReports(err) => ReturnsOnly(err)

\* C19: every call with a current_version above zero and next_version <=
\* current_version ends in VersionMismatch; with current_version zero the
\* tree is handed no current version and reports no VersionMismatch; an error
\* of the tree is returned as it is, with no root and no diff, the staged
\* store dropped and the reader as it was.
C19_VersionMismatchAboveZero ==
    /\ [](MerkleDone =>
            /\ (m_in.current_version > 0 /\ m_in.next_version <= m_in.current_version)
                   => ReturnsOnly("VersionMismatch")
            /\ m_in.current_version = 0 => ~ReturnsOnly("VersionMismatch")
            /\ \A err \in {"VersionMismatch", "MissingNode"} :
                   TreeReports(err) => ReturnsOnly(err)
            /\ ~m_result.value.ok => \E err \in {"VersionMismatch", "MissingNode"} :
                   TreeReports(err))
    /\ [][m_in' = m_in]_vars

C19_Witness ==
    /\ MerkleDone
    /\ ReturnsOnly("VersionMismatch")
    /\ Len(m_applied) >= 1
    /\ m_in.next_version = m_in.current_version

\* No two changes are of the same substate id.
DistinctIds(changes) ==
    \A i \in 1..Len(changes), j \in 1..Len(changes) : i # j => changes[i].id # changes[j].id

\* The result of the call had the changes been supplied in another order.
SameRootFor(changes) ==
    LET other == CalculateStateMerkleDiff(m_in.tx, m_in.current_version, m_in.next_version,
                                          m_in.pending_tree_diffs, changes)
    IN  other.ok = m_result.value.ok /\ other.root = m_result.value.root

Members(committee) == {committee[k] : k \in 1..Len(committee)}

\* C21: the proposer of every dummy block is a member of the committee, the
\* member at place height mod committee size, so that dummy blocks whose
\* heights are a committee size apart have the same proposer.
C21_LeaderIsMemberRoundRobin ==
    d_pc # "idle" =>
        LET n == Len(EntryCommittee)
        IN  /\ n >= 1
            /\ \A i \in 1..Len(visited) :
                   /\ visited[i].proposed_by \in Members(EntryCommittee)
                   /\ visited[i].proposed_by = EntryCommittee[(visited[i].height % n) + 1]
            /\ \A i \in 1..Len(visited), j \in 1..Len(visited) :
                   (visited[i].height % n = visited[j].height % n)
                       => visited[i].proposed_by = visited[j].proposed_by

C21_Witness ==
    /\ d_pc = "done"
    /\ Len(EntryCommittee) = 3
    /\ Len(visited) >= 4
    /\ visited[1].proposed_by = visited[4].proposed_by
    /\ visited[1].proposed_by # visited[2].proposed_by
    /\ visited[2].proposed_by # visited[3].proposed_by

\* The fields the entry point was given for every dummy block.
EntryFrame ==
    IF d_in.entry = "last"
    THEN [network |-> d_in.network, epoch |-> d_in.epoch, shard |-> d_in.shard,
          justify |-> d_in.high_qc, merkle_root |-> d_in.parent_merkle_root,
          timestamp |-> d_in.parent_timestamp,
          base_layer_block_height |-> d_in.parent_base_layer_block_height,
          base_layer_block_hash |-> d_in.parent_base_layer_block_hash]
    ELSE [network |-> d_in.candidate_block.network, epoch |-> d_in.justify_block.epoch,
          shard |-> d_in.justify_block.shard, justify |-> d_in.candidate_block.justify,
          merkle_root |-> d_in.justify_block.merkle_root,
          timestamp |-> d_in.justify_block.timestamp,
          base_layer_block_height |-> d_in.justify_block.base_layer_block_height,
          base_layer_block_hash |-> d_in.justify_block.base_layer_block_hash]

\* The fields of a block that the frame fixes.
FrameOf(b) ==
    [network |-> b.network, epoch |-> b.epoch, shard |-> b.shard, justify |-> b.justify,
     merkle_root |-> b.merkle_root, timestamp |-> b.timestamp,
     base_layer_block_height |-> b.base_layer_block_height,
     base_layer_block_hash |-> b.base_layer_block_hash]

\* C22: every dummy block of a call carries the high QC as its justify and
\* the network, epoch, shard, merkle root, timestamp and base layer height
\* and hash the call was given; two dummy blocks of a call differ in height,
\* parent and proposer only (and in the id computed from them).
C22_DummiesShareFrame ==
    d_pc # "idle" =>
        /\ \A i \in 1..Len(visited) :
               /\ FrameOf(visited[i]) = EntryFrame
               /\ visited[i].is_dummy
               /\ DOMAIN visited[i] =
                      DOMAIN EntryFrame \cup {"id", "height", "parent", "proposed_by", "is_dummy"}
        /\ \A i \in 1..Len(visited), j \in 1..Len(visited) :
               i # j => /\ FrameOf(visited[i]) = FrameOf(visited[j])
                        /\ visited[i].height # visited[j].height
                        /\ visited[i].parent # visited[j].parent

C22_Witness ==
    /\ d_pc = "done"
    /\ d_in.entry = "all"
    /\ Len(visited) >= 3
    /\ d_in.candidate_block.network # d_in.justify_block.network
    /\ d_in.justify_block.epoch # d_in.candidate_block.justify.epoch


(***************************************************************************)
(* The watcher: what monitor_child sends, and to whom.                     *)
(***************************************************************************)
\* The statuses monitor_child has sent on a channel, in order.
SentOn(c) ==
    LET ToC(send) == send.to = c
        sends == SelectSeq(w_trace, ToC)
    IN  [i \in 1..Len(sends) |-> sends[i].status]

\* Running, then the terminal status of the child's end.
StatusSequence == <<Running, TerminalStatus(w_exit)>>

\* C23: on the logging and on the alerting channel monitor_child sends
\* Running and then one terminal status, the same on both and to logging
\* before alerting each time; the restart pulse is sent once, after both
\* channels took the terminal status, and it is the last thing sent; a
\* monitor_child that has returned has sent all of it.
C23_RunningThenTerminalThenOnePulse ==
    /\ IsPrefix(SentOn("logging"), StatusSequence)
    /\ IsPrefix(SentOn("alerting"), SentOn("logging"))
    /\ Len(SentOn("logging")) <= Len(SentOn("alerting")) + 1
    /\ IsTerminal(TerminalStatus(w_exit))
    /\ Len(SentOn("restart")) <= 1
    /\ Len(SentOn("restart")) = 1 =>
         /\ SentOn("logging") = StatusSequence
         /\ SentOn("alerting") = StatusSequence
         /\ w_trace[Len(w_trace)] = SendTo("restart", Pulse)
         /\ w_pc = "done"
    /\ w_pc = "done" => Len(SentOn("restart")) = 1

\* monitor_child has returned after a child that crashed, and the pulse was
\* taken.
C23_Witness ==
    /\ w_pc = "done"
    /\ TerminalStatus(w_exit) = Crashed
    /\ SentOn("alerting") = <<Running, Crashed>>
    /\ delivered.restart = <<Pulse>>


\* monitor_child is at a send to the channel, and the channel is full.
WaitsOn(c) ==
    /\ w_pc = "sending"
    /\ MonitorSends(w_exit)[w_step + 1].to = c
    /\ rx_open[c]
    /\ Len(chan[c]) >= ChannelCapacity

\* What monitor_child has still to send to the channel.
Unsent(c) ==
    LET ToC(send) == send.to = c
    IN  w_pc \in {"sending", "waiting"}
        /\ SelectSeq(SubSeq(MonitorSends(w_exit), w_step + 1, Len(MonitorSends(w_exit))), ToC) # <<>>

\* C24: the alerting channel and the restart pulse do not depend on the
\* logging consumer: monitor_child is never held up by the full logging
\* channel while it has a status for the alerting channel, which has room,
\* or the pulse still to send.
C24_AlertingIndependentOfLogging ==
    ~(/\ WaitsOn("logging")
      /\ Unsent("alerting")
      /\ Unsent("restart")
      /\ rx_open.alerting
      /\ Len(chan.alerting) < ChannelCapacity)

\* C25: no watcher task panics, and a consumer to which recv gave None, all
\* senders being dropped, has returned: it is not inside its loop any more.
C25_TasksExitCooperatively ==
    /\ w_pc # "panicked"
    /\ alert_pc # "panicked"
    /\ tx_dropped => log_pc # "closed" /\ alert_pc # "closed"


(***************************************************************************)
(* The base node client: failures to connect and failures of a stream.     *)
(***************************************************************************)
\* The last operation found no client and its connection attempt failed.
ConnectAttemptFailed == g_calls > 0 /\ ~g_client.some

\* C26: an operation whose connection attempt fails returns an error value
\* to its caller, whichever operation it is, and the client stays
\* unconnected; no operation panics.
C26_ConnectFailureIsAnErrorValue ==
    /\ g_pc # "panicked"
    /\ ConnectAttemptFailed =>
         /\ g_pc \in {"ready", "no_client"}
         /\ g_result.some
         /\ ~g_result.value.ok

\* A streaming operation has returned after its stream was opened.
StreamReturned ==
    /\ g_pc = "ready"
    /\ g_op \in StreamingOps
    /\ g_result.some
    /\ g_stream # <<>>

WellFormed(op, item) ==
    /\ item.kind \notin {"end", "error"}
    /\ op # "get_mempool_transaction_count" => item.kind = "ok"

\* What the operation owes for the items of a stream that ended.
Complete(op, items) ==
    IF op = "get_mempool_transaction_count" THEN Len(items)
    ELSE [i \in 1..Len(items) |-> Convert(op, items[i], "ConnectionError").value]

\* C27: a streaming operation reads on while the items are well-formed and
\* returns at the first item that is not, at a stream error, or at the end
\* of the stream; it returns Ok only at the end of the stream, with the
\* element of every item in stream order (their number for the mempool
\* count), and otherwise InvalidPeerMessage or ConnectionError.
C27_CompleteResultOrError ==
    /\ g_pc = "reading" =>
         /\ \A i \in 1..Len(g_stream) : WellFormed(g_op, g_stream[i])
         /\ Len(g_acc) + g_count = Len(g_stream)
    /\ StreamReturned =>
         LET last == g_stream[Len(g_stream)]
             before == SubSeq(g_stream, 1, Len(g_stream) - 1)
         IN  /\ \A i \in 1..Len(before) : WellFormed(g_op, before[i])
             /\ g_result.value.ok <=> last = StreamEnded
             /\ g_result.value.ok => g_result.value.value = Complete(g_op, before)
             /\ ~g_result.value.ok => g_result.value.err \in {"InvalidPeerMessage", "ConnectionError"}
             /\ last = StreamBroke => g_result.value = Err(StreamError(g_op))

\* get_sidechain_utxos has returned the elements of two different items, in
\* stream order.
C27_Witness ==
    /\ StreamReturned
    /\ g_op = "get_sidechain_utxos"
    /\ g_result.value.ok
    /\ Len(g_result.value.value) = 2
    /\ g_result.value.value[1].block_info = "a"
    /\ g_result.value.value[2].block_info = "b"


(***************************************************************************)
(* The confidential proofs.                                                *)
(***************************************************************************)
\* create_confidential_output_statement was called with a negative amount
\* in a statement that is present.
NegativeInput ==
    /\ p_call.some
    /\ \/ p_call.value.output_statement.some /\ p_call.value.output_statement.value.amount < 0
       \/ p_call.value.change_statement.some /\ p_call.value.change_statement.value.amount < 0

\* C28: create_confidential_output_statement does not panic, and with a
\* negative amount in the output statement or in the change statement,
\* whichever statements are present and with or without a view key, it
\* returns NegativeAmount: it returns no range proof over the amount read
\* as unsigned.
C28_NegativeAmountIsTypedError ==
    p_result.some =>
        /\ ~p_result.value.panic
        /\ NegativeInput => p_result.value = Failed("NegativeAmount")

\* The statements of the call that are present, output before change.
PresentStatements ==
    LET OfOption(o) == IF o.some THEN <<o.value>> ELSE <<>>
    IN  OfOption(p_call.value.output_statement) \o OfOption(p_call.value.change_statement)

\* The proof is over the statements, in order, under the aggregation factor
\* of their number.
ProofOver(proof, statements) ==
    /\ Len(proof) = 1 + Len(statements)
    /\ proof[1] = Len(statements)
    /\ \A k \in 1..Len(statements) :
         /\ proof[k + 1].mask = <<statements[k].mask>>
         /\ proof[k + 1].value = statements[k].amount % Pow2(AmountBits)
         /\ proof[k + 1].minimum_value_promise = statements[k].minimum_value_promise

RangeProofAsClaimed(proof) ==
    /\ proof = <<>> <=> PresentStatements = <<>>
    /\ proof # <<>> => ProofOver(proof, PresentStatements) /\ proof[1] \in {1, 2}

\* C29: a range proof that generate_extended_bullet_proof returns, and the
\* one in a ConfidentialOutputStatement, is over exactly the statements that
\* are present, output before change, with their number (1 or 2) as the
\* aggregation factor, and it is the empty byte sequence exactly when both
\* statements are absent.
C29_RangeProofOverPresentStatements ==
    p_call.some =>
        LET generated == GenerateExtendedBulletProof(p_call.value.output_statement, p_call.value.change_statement)
        IN  /\ generated.ok => RangeProofAsClaimed(generated.value)
            /\ p_result.value.ok => RangeProofAsClaimed(p_result.value.value.range_proof)

\* A statement was returned for an output and a change statement that differ
\* in their masks.
C29_Witness ==
    /\ p_result.some
    /\ p_result.value.ok
    /\ Len(PresentStatements) = 2
    /\ PresentStatements[1].mask # PresentStatements[2].mask
    /\ p_result.value.value.range_proof[1] = 2

\* C30: decrypt_data_and_mask on what encrypt_data returned, with the same
\* key and commitment, returns the value and the mask that were encrypted;
\* with one bit of the tag, the nonce or the ciphertext changed it returns an
\* error.
C30_DecryptInvertsEncryptAndDetectsChange ==
    e_out.some =>
        IF e_flip.some
        THEN ~e_out.value.ok
        ELSE e_out.value = Ok(<<e_in.value, e_in.mask>>)

\* A value that needs its second byte came back.
C30_Witness ==
    /\ e_out.some
    /\ ~e_flip.some
    /\ e_in.value = Byte
    /\ e_out.value.ok
    /\ e_out.value.value[1] = Byte


\* The statements of a ConfidentialOutputStatement that are present, output
\* before change.
ReturnedStatements(statement) ==
    LET OfOption(o) == IF o.some THEN <<o.value>> ELSE <<>>
    IN  OfOption(statement.output_statement) \o OfOption(statement.change_statement)

\* The returned statement is the one of the input: the Pedersen commitment of
\* the amount under the mask, and the promise, the nonce and the encrypted
\* data as given.
StatementOf(returned, stmt) ==
    /\ returned.commitment = (stmt.mask * GenG + stmt.amount * GenH) % GroupOrder
    /\ returned.minimum_value_promise = stmt.minimum_value_promise
    /\ returned.sender_public_nonce = stmt.sender_public_nonce
    /\ returned.encrypted_data = stmt.encrypted_data

\* C31: in every ConfidentialOutputStatement that is returned, the statement
\* of an input of non-negative amount a and mask m has the Pedersen
\* commitment of a under m and the minimum value promise, the sender nonce
\* and the encrypted data of the input, and the range proof verifies against
\* the commitments of the statements that are present.
C31_ReturnedStatementIsValid ==
    p_result.some /\ p_result.value.ok =>
        LET returned == ReturnedStatements(p_result.value.value)
        IN  /\ Len(returned) = Len(PresentStatements)
            /\ \A k \in 1..Len(returned) :
                 PresentStatements[k].amount >= 0 => StatementOf(returned[k], PresentStatements[k])
            /\ VerifyExtendedProof(p_result.value.value.range_proof, returned)

\* A statement came back for an output of amount 2 under a promise of 1 and
\* a change of another mask.
C31_Witness ==
    /\ p_result.some
    /\ p_result.value.ok
    /\ Len(PresentStatements) = 2
    /\ PresentStatements[1].amount = 2
    /\ PresentStatements[1].minimum_value_promise = 1
    /\ PresentStatements[2].amount >= 0
    /\ PresentStatements[1].mask # PresentStatements[2].mask


\* The three verification equations of a viewable balance proof, for the
\* challenge the verifier computes from the commitment, the view key and
\* the proof:  s_m.G + s_v.H = e.C + C',  s_v.G + s_r.P = e.E + E',
\* s_r.G = e.R + R'.
SigmaHolds(proof, commitment, view_key) ==
    LET e == (2 * commitment + 3 * view_key + 5 * proof.elgamal_encrypted
              + 4 * proof.elgamal_public_nonce + 6 * proof.c_prime + proof.e_prime
              + 2 * proof.r_prime + 1) % GroupOrder
    IN  /\ (proof.s_m * GenG + proof.s_v * GenH) % GroupOrder
               = (e * commitment + proof.c_prime) % GroupOrder
        /\ (proof.s_v * GenG + proof.s_r * view_key) % GroupOrder
               = (e * proof.elgamal_encrypted + proof.e_prime) % GroupOrder
        /\ (proof.s_r * GenG) % GroupOrder
               = (e * proof.elgamal_public_nonce + proof.r_prime) % GroupOrder

\* E - view_secret.R
Recovered(proof, view_secret) ==
    (proof.elgamal_encrypted + GroupOrder * GroupOrder - view_secret * proof.elgamal_public_nonce) % GroupOrder

\* The proof is a valid one over the commitment and the view key, and the
\* view secret, and no other, recovers amount.G from it.
ProofAsClaimed(proof, amount, commitment, view_key) ==
    /\ SigmaHolds(proof, commitment, view_key)
    /\ \A view_secret \in 0..(GroupOrder - 1) :
         (view_secret * GenG) % GroupOrder = view_key
            <=> Recovered(proof, view_secret) = (amount * GenG) % GroupOrder

\* C32: a returned statement has a viewable balance proof exactly when its
\* input has a resource view key; every proof create_viewable_balance_proof
\* builds over a mask, an amount, the commitment and a view key satisfies
\* the three verification equations for the challenge, and E - s.R is
\* amount.G for the view secret s and for no other secret.
C32_ViewableBalanceProofVerifiesAndOpens ==
    /\ v_proof.some =>
         ProofAsClaimed(v_proof.value, v_in.value.output_amount, v_in.value.commitment, v_in.value.view_key)
    /\ p_result.some /\ p_result.value.ok =>
         LET returned == ReturnedStatements(p_result.value.value)
         IN  \A k \in 1..Len(returned) :
               /\ returned[k].viewable_balance_proof.some <=> PresentStatements[k].resource_view_key.some
               /\ returned[k].viewable_balance_proof.some =>
                    ProofAsClaimed(returned[k].viewable_balance_proof.value, PresentStatements[k].amount,
                                   returned[k].commitment, PresentStatements[k].resource_view_key.value)

\* A proof over the amount 5 for the view key of the secret 5: that secret
\* recovers 5.G, the secret 3 does not.
C32_Witness ==
    /\ v_proof.some
    /\ v_in.value.output_amount = 5
    /\ v_in.value.view_key = 5
    /\ v_proof.value.elgamal_public_nonce = 2
    /\ Recovered(v_proof.value, 5) = 5
    /\ Recovered(v_proof.value, 3) # 5

\* The highest height among the Proposals a task handed to send, 0 when none.
HighestStreamed(t) ==
    IF Proposals(t) = <<>> THEN 0
    ELSE CHOOSE h \in {ProposalHeights(t)[i] : i \in 1..Len(Proposals(t))} :
             \A i \in 1..Len(Proposals(t)) : ProposalHeights(t)[i] <= h

\* C33: the blocks of a response are read in one read transaction and
\* LastSentVote in a separate one after the last Proposal was sent: a response
\* that ran to its end made one read for the blocks, one per Proposal and one
\* more for the vote, and the Vote it sent, the last message of the response,
\* is the LastSentVote persisted at that last read, whatever was persisted
\* when the blocks were read.
C33_VoteIsTheOnePersistedAfterStreaming ==
    \A r \in Requests :
        LET t == task[r]
        IN  RanToEnd(t)
                => /\ t.reads = 1 + Len(Proposals(t)) + 1
                   /\ t.vote_read = t.vote_at_end
                   /\ \A i \in 1..Len(t.log) :
                        IsVote(t.log[i]) => /\ i = Len(t.log)
                                            /\ t.vote_at_end.some
                                            /\ t.log[i].vote = t.vote_at_end.value
                   /\ t.vote_at_end.some => Votes(t) # <<>>

\* The pacemaker persisted a newer vote while the blocks were streamed: the
\* Vote sent is for a block above the leaf read and above every streamed block.
C33_Witness ==
    \E r \in Requests :
        LET t == task[r]
        IN  /\ RanToEnd(t)
            /\ Proposals(t) # <<>>
            /\ Votes(t) # <<>>
            /\ Votes(t)[1].vote.block_height > t.leaf.height
            /\ Votes(t)[1].vote.block_height > HighestStreamed(t)

\* C34: handling a sync request never changes the store: every step of the
\* handler and of a response task, of a request accepted, rejected or failed
\* midway, leaves LeafBlock, LastProposed, LastSentVote and the stored blocks
\* as they were, and every message of a response is addressed to the
\* requester.
C34_SyncLeavesStoreAndAddressesRequester ==
    /\ [][task' # task => store' = store]_vars
    /\ [](\A r \in Requests : \A i \in 1..Len(task[r].log) : task[r].log[i].to = Peer(r))

\* One response ran to its end with Proposals and a Vote sent, another failed
\* midway on a send, and the store still holds its last sent vote.
C34_Witness ==
    \E r, q \in Requests :
        /\ r # q
        /\ RanToEnd(task[r])
        /\ Proposals(task[r]) # <<>>
        /\ Votes(task[r]) # <<>>
        /\ task[q].pc = "ended" /\ task[q].end = "send_err"
        /\ task[q].log # <<>>
        /\ store.last_sent_vote.some

\* The status the end of the child is to be reported as.
ClassifiedAs(exit, status) ==
    /\ (exit.ok /\ exit.success /\ exit.code.some) => status = Exited(exit.code.value)
    /\ (exit.ok /\ exit.success /\ ~exit.code.some) => status = Exited(0)
    /\ (exit.ok /\ ~exit.success) => status = Crashed /\ status.kind # "Exited"
    /\ ~exit.ok => status = InternalError(exit.err)

\* C35: monitor_child reports the end of the child by the success of its exit
\* status: Exited(code), Exited(0) without a code, for a successful exit,
\* Crashed and never Exited for an unsuccessful one, with a code or killed by
\* a signal, InternalError when the wait itself failed; the restart pulse
\* comes after the report on both channels, and a monitor_child that returned
\* has sent it, whichever of the three outcomes it reported.
C35_EndClassifiedBySuccessThenPulse ==
    /\ \A c \in {"logging", "alerting"} :
         Len(SentOn(c)) >= 2 => ClassifiedAs(w_exit, SentOn(c)[2])
    /\ SentOn("restart") # <<>> =>
         \A c \in {"logging", "alerting"} :
            Len(SentOn(c)) = 2 /\ ClassifiedAs(w_exit, SentOn(c)[2])
    /\ w_pc = "done" =>
         /\ SentOn("restart") = <<Pulse>>
         /\ w_trace[Len(w_trace)] = SendTo("restart", Pulse)
         /\ \E i \in 1..(Len(w_trace) - 1) :
              /\ ClassifiedAs(w_exit, w_trace[i].status)
              /\ w_trace[i].status.kind \in {"Exited", "Crashed", "InternalError"}

\* A child killed by a signal, without an exit code: reported as Crashed on
\* both channels, the pulse sent after it.
C35_Witness ==
    /\ w_pc = "done"
    /\ w_exit.ok /\ ~w_exit.success /\ ~w_exit.code.some
    /\ SentOn("logging") = <<Running, Crashed>>
    /\ SentOn("alerting") = <<Running, Crashed>>
    /\ SentOn("restart") = <<Pulse>>

\* No Client::connect among the first n succeeded.
AllFailed(connects, n) == \A i \in 1..n : ~connects[i]

\* C36: the client connects lazily and at most once: the inner client is
\* absent after new(); it is present exactly when the last connection attempt
\* made succeeded, it is the channel of that attempt, the first that
\* succeeded, and no attempt is made after it; once present it is the same
\* after every step, an RPC or stream error included; while it is absent every
\* operation called has made an attempt and all of them failed; connect()
\* returns a client exactly when its attempt succeeded, and that client is
\* connected.
C36_ConnectsLazilyAtMostOnce ==
    /\ [](/\ g_calls = 0 => g_client = None /\ g_connects = <<>>
          /\ g_client.some =>
               /\ g_connects # <<>>
               /\ g_connects[Len(g_connects)]
               /\ AllFailed(g_connects, Len(g_connects) - 1)
               /\ g_client.value = Len(g_connects)
          /\ ~g_client.some =>
               /\ AllFailed(g_connects, Len(g_connects))
               /\ Len(g_connects) = g_calls
          /\ g_pc = "no_client" => g_op = "connect" /\ g_connects = <<FALSE>>
          /\ g_op = "connect" =>
               /\ g_result.some
               /\ g_result.value.ok <=> g_connects = <<TRUE>>
               /\ g_result.value.ok <=> g_pc = "ready"
               /\ g_result.value.ok => g_client = Some(1))
    /\ [][g_client.some => g_client' = g_client]_vars

\* The first operation failed to connect, the second connected, and the
\* third, on the same inner client, ended with a stream error that left the
\* client in place.
C36_Witness ==
    /\ g_calls = 3
    /\ g_connects = <<FALSE, TRUE>>
    /\ g_client = Some(2)
    /\ g_pc = "ready"
    /\ g_stream # <<>> /\ g_stream[Len(g_stream)] = StreamBroke
    /\ g_result.some /\ ~g_result.value.ok

====
